---- MODULE Spec2Model ----
(***************************************************************************)
(* Model of MQClient's Queue-level acknowledgement discipline              *)
(* (src/mqclient/queue.py) over a broker adapter (Sub) whose calls may     *)
(* succeed or fail.                                                        *)
(*                                                                         *)
(*   SpecAck  - the ack state machine (_safe_ack / _safe_nack) driven      *)
(*              through the manual-acking resource's ack()/nack().         *)
(*   SpecSub  - one QueueSubResource (open_sub): __aenter__, __anext__,    *)
(*              nack_current, __aexit__, over RabbitMQSub.message_generator*)
(*   SpecOne  - a series of open_sub_one contexts on one Queue.            *)
(*                                                                         *)
(* The adapter's ack_message, reject_message and receive may raise; close()*)
(* of a connected Consumer returns.  Every adapter call is recorded in     *)
(* `log`, in call order.  The user's block is a sequence of next,          *)
(* nack_current, break, raise and leaving the block; an exception raised   *)
(* by a library call inside the block leaves the block (it is not caught   *)
(* there) and reaches __aexit__.  Messages of a Consumer are numbered in   *)
(* delivery order.                                                         *)
(***************************************************************************)
EXTENDS Integers, Sequences, FiniteSets, TLC

\* ------------------------------------------------------------------ bounds
\* Message objects a Consumer hands out, numbered 0..MaxMsgs-1 in delivery order
MaxMsgs == 3
\* Messages handed out by the manual-acking resource (at most MaxMsgs)
MaxManual == 2
\* failing adapter calls injected per Consumer
MaxFail == 2
\* messages sent inside one open_pub context
MaxSends == 2
\* open_sub_one contexts opened on one Queue
MaxRounds == 3
\* largest `retries` argument given to auto_retry_call
MaxRetries == 2
\* largest `retry_delay` argument given to auto_retry_call
MaxDelay == 2

Msgs == 0 .. (MaxMsgs - 1)
\* the Messages the user of the manual-acking resource holds
ManualMsgs == {m \in Msgs : m < MaxManual}
\* `None` where the code holds an Optional[Message]
NoMsg == -1

\* ------------------------------------------------------------------ state
VARIABLES
    except_errors,  \* Queue.except_errors
    ack_status,     \* Message._ack_status of every Message of the Consumer
    log,            \* calls the adapter (Sub) has observed, in order
    raised,         \* exception the last library call raised to its caller
    last_op,        \* the last request made to the library, with the status it found
    ctx,            \* scoped context: "new", "entered", "exited"
    gen,            \* QueueSubResource._gen: the message_generator's position
    sub_msg,        \* QueueSubResource.msg
    loop,           \* the user's loop: "none", "iterating", "exhausted", "broken"
    pending_exc,    \* exception travelling through the with-block towards __aexit__
    yielded,        \* messages returned to the user, in order
    nacked_by_user, \* messages nack_current() was requested on
    backlog,        \* messages the broker still holds for the queue
    round,          \* contexts opened so far on the Queue
    retries,        \* auto_retry_call: the `retries` argument
    retry_delay,    \* auto_retry_call: the `retry_delay` argument
    retry_i,        \* auto_retry_call: the loop variable i
    retry_pc,       \* auto_retry_call: "idle", "attempt", "reconnect", "done"
    retry_log,      \* auto_retry_call: calls of factory/func/close/sleep/connect
    ack_pending,    \* ManualQueueSubResource._ack_pending
    ack_pending_limit, \* open_sub_manual_acking(ack_pending_limit)
    broker,         \* ids of the published messages the broker holds, in the
                    \* order it delivers them to the current Consumer
    wire,           \* two user values on their way through serialize_data,
                    \* Message(...) and deserialize_data
    resolve,        \* one get_backend(backend_name) call and what it gave
    conn            \* one RabbitMQ instance: its constructor arguments, its
                    \* credentials, its pika connection and channel

vars == <<except_errors, ack_status, log, raised, last_op, ctx, gen, sub_msg,
          loop, pending_exc, yielded, nacked_by_user, backlog, round,
          retries, retry_delay, retry_i, retry_pc, retry_log,
          ack_pending, ack_pending_limit, broker, wire,
          resolve, conn>>

RetryVars == <<retries, retry_delay, retry_i, retry_pc, retry_log>>
ManualVars == <<ack_pending, ack_pending_limit>>
BrokerVars == <<broker>>
\* no auto_retry_call is being followed
RetryIdle ==
    /\ retries = 0 /\ retry_delay = 0 /\ retry_i = 0
    /\ retry_pc = "idle" /\ retry_log = <<>>
\* no manual-acking counter is being followed
ManualIdle == ack_pending = 0 /\ ack_pending_limit = 0
\* the published messages are not followed by identity
BrokerIdle == broker = <<>>
MsgVars == <<wire>>
\* no value is being followed through serialization
MsgIdle == wire = [pc |-> "idle"]
RegistryVars == <<resolve>>
\* no backend is being resolved
RegistryIdle == resolve = [pc |-> "idle"]
ConnVars == <<conn>>
\* no RabbitMQ instance is being followed
ConnIdle == conn = [pc |-> "idle"]

\* ------------------------------------------------------- Message.AckStatus
NONE == "NONE"
ACKED == "ACKED"
NACKED == "NACKED"
AckStatus == {NONE, ACKED, NACKED}

\* ------------------------------------------------------------- exceptions
NoExc == [exc |-> "none", cause |-> "none"]
Exc(e, c) == [exc |-> e, cause |-> c]

\* the adapter's record of one call
Call(op, m, ok) == [op |-> op, msg |-> m, ok |-> ok]

\* result of a library call: the new message states, adapter log and exception
Result(st, lg, e) == [ack_status |-> st, log |-> lg, raised |-> e]

\* ------------------------------------------------- Queue._safe_ack / _safe_nack
\* faulty variants of _safe_ack
\* the message is not marked after a successful adapter ack
_safe_ack_no_mark(st, lg, m, ok) ==
    IF st[m] = NONE
    THEN Result(st, Append(lg, Call("ack_message", m, ok)),
                IF ok THEN NoExc ELSE Exc("AckException", "BrokerError"))
    ELSE IF st[m] = NACKED
    THEN Result(st, lg, Exc("AckException", "none"))
    ELSE Result(st, lg, NoExc)

\* a nacked message is acked all the same
_safe_ack_lenient(st, lg, m, ok) ==
    IF st[m] # ACKED
    THEN IF ok
         THEN Result([st EXCEPT ![m] = ACKED],
                     Append(lg, Call("ack_message", m, TRUE)), NoExc)
         ELSE Result(st, Append(lg, Call("ack_message", m, FALSE)),
                     Exc("AckException", "BrokerError"))
    ELSE Result(st, lg, NoExc)

\* an acked message is acked again on the adapter
_safe_ack_reack(st, lg, m, ok) ==
    IF st[m] # NACKED
    THEN IF ok
         THEN Result([st EXCEPT ![m] = ACKED],
                     Append(lg, Call("ack_message", m, TRUE)), NoExc)
         ELSE Result(st, Append(lg, Call("ack_message", m, FALSE)),
                     Exc("AckException", "BrokerError"))
    ELSE Result(st, lg, Exc("AckException", "none"))

\* the message is marked before the adapter call, whatever its outcome
_safe_ack_mark_first(st, lg, m, ok) ==
    IF st[m] = NONE
    THEN Result([st EXCEPT ![m] = ACKED],
                Append(lg, Call("ack_message", m, ok)),
                IF ok THEN NoExc ELSE Exc("AckException", "BrokerError"))
    ELSE IF st[m] = NACKED
    THEN Result(st, lg, Exc("AckException", "none"))
    ELSE Result(st, lg, NoExc)

\* `ok` is whether the adapter's ack_message() returns (TRUE) or raises (FALSE)
_safe_ack(st, lg, m, ok) ==
    IF st[m] = NONE
    THEN IF ok
         THEN Result([st EXCEPT ![m] = ACKED],
                     Append(lg, Call("ack_message", m, TRUE)), NoExc)
         ELSE Result(st, Append(lg, Call("ack_message", m, FALSE)),
                     Exc("AckException", "BrokerError"))
    ELSE IF st[m] = NACKED
    THEN Result(st, lg, Exc("AckException", "none"))
    ELSE Result(st, lg, NoExc)

\* faulty variant of _safe_nack: an acked message is rejected all the same
_safe_nack_cross(st, lg, m, ok) ==
    IF st[m] # NACKED
    THEN IF ok
         THEN Result([st EXCEPT ![m] = NACKED],
                     Append(lg, Call("reject_message", m, TRUE)), NoExc)
         ELSE Result(st, Append(lg, Call("reject_message", m, FALSE)),
                     Exc("NackException", "BrokerError"))
    ELSE Result(st, lg, NoExc)

\* `ok` is whether the adapter's reject_message() returns (TRUE) or raises (FALSE)
_safe_nack(st, lg, m, ok) ==
    IF st[m] = NONE
    THEN IF ok
         THEN Result([st EXCEPT ![m] = NACKED],
                     Append(lg, Call("reject_message", m, TRUE)), NoExc)
         ELSE Result(st, Append(lg, Call("reject_message", m, FALSE)),
                     Exc("NackException", "BrokerError"))
    ELSE IF st[m] = NACKED
    THEN Result(st, lg, NoExc)
    ELSE Result(st, lg, Exc("NackException", "none"))

\* a failing adapter call is injected only while fewer than MaxFail have failed
Failed(lg) == {i \in DOMAIN lg : ~lg[i].ok}
Outcomes(lg) == IF Cardinality(Failed(lg)) < MaxFail THEN {TRUE, FALSE} ELSE {TRUE}

Op(op, m, prev) == [op |-> op, msg |-> m, prev |-> prev]
NoOp == Op("none", NoMsg, NONE)

\* ======================================================================
\* SpecAck: ManualQueueSubResource.ack / .nack on the delivered messages
\* ======================================================================
InitAck ==
    /\ MsgIdle
    /\ RegistryIdle
    /\ ConnIdle
    /\ BrokerIdle
    /\ RetryIdle
    /\ ManualIdle
    /\ except_errors = TRUE
    /\ ack_status = [m \in Msgs |-> NONE]
    /\ log = <<>>
    /\ raised = NoExc
    /\ last_op = NoOp
    /\ ctx = "entered"
    /\ gen = [st |-> "unstarted", pos |-> 0]
    /\ sub_msg = NoMsg
    /\ loop = "none"
    /\ pending_exc = "none"
    /\ yielded = <<>>
    /\ nacked_by_user = {}
    /\ backlog = MaxManual
    /\ round = 1

AckFrame == UNCHANGED <<except_errors, ctx, gen, sub_msg, loop, pending_exc,
                        yielded, nacked_by_user, backlog, round,
                        RetryVars, ManualVars, BrokerVars, MsgVars,
                   RegistryVars,
                   ConnVars>>

\* ManualQueueSubResource.ack(msg)
ManualAck ==
    \E m \in ManualMsgs, ok \in Outcomes(log) :
        LET r == _safe_ack(ack_status, log, m, ok) IN
        /\ ack_status' = r.ack_status
        /\ log' = r.log
        /\ raised' = r.raised
        /\ last_op' = Op("ack", m, ack_status[m])
        /\ AckFrame

\* ManualQueueSubResource.nack(msg)
ManualNack ==
    \E m \in ManualMsgs, ok \in Outcomes(log) :
        LET r == _safe_nack(ack_status, log, m, ok) IN
        /\ ack_status' = r.ack_status
        /\ log' = r.log
        /\ raised' = r.raised
        /\ last_op' = Op("nack", m, ack_status[m])
        /\ AckFrame

NextAck == ManualAck \/ ManualNack

SpecAck == InitAck /\ [][NextAck]_vars

\* ----------------------------------------------------------------------
\* C1: ack_status only moves NONE -> ACKED or NONE -> NACKED: a message that
\* is ACKED stays ACKED and a message that is NACKED stays NACKED, whatever
\* ack/nack requests follow and however the adapter calls turn out.
AckStatusMonotone ==
    [][\A m \in Msgs :
          /\ (ack_status[m] = ACKED => ack_status'[m] = ACKED)
          /\ (ack_status[m] = NACKED => ack_status'[m] = NACKED)]_vars

\* both resolutions exist and a further request hit a resolved message
AckStatusMonotoneWitness ==
    \E m, n \in Msgs :
        /\ ack_status[m] = ACKED
        /\ ack_status[n] = NACKED
        /\ last_op.op = "nack" /\ last_op.msg = m /\ last_op.prev = ACKED

\* C2: an ack request on a NONE message makes exactly one ack_message call
\* for that message and, when the call succeeds, the message becomes ACKED;
\* a nack request on a NONE message makes exactly one reject_message call
\* and, when it succeeds, the message becomes NACKED.
NoneRequestCallsAdapterOnce ==
    [][\A m \in Msgs :
          /\ (last_op' = Op("ack", m, NONE) /\ ack_status[m] = NONE) =>
                \E ok \in BOOLEAN :
                    /\ log' = Append(log, Call("ack_message", m, ok))
                    /\ (ok => ack_status'[m] = ACKED)
          /\ (last_op' = Op("nack", m, NONE) /\ ack_status[m] = NONE) =>
                \E ok \in BOOLEAN :
                    /\ log' = Append(log, Call("reject_message", m, ok))
                    /\ (ok => ack_status'[m] = NACKED)]_vars

\* an ack of a NONE message went through the adapter and marked the message
NoneRequestWitness ==
    \E m \in Msgs :
        /\ last_op = Op("ack", m, NONE)
        /\ ack_status[m] = ACKED
        /\ log[Len(log)] = Call("ack_message", m, TRUE)

\* C3: a nack request on an ACKED message raises NackException and an ack
\* request on a NACKED message raises AckException; neither calls the
\* adapter nor changes any ack_status.
CrossRequestRaises ==
    [][/\ (last_op'.op = "nack" /\ last_op'.prev = ACKED) =>
            (raised'.exc = "NackException" /\ log' = log /\ ack_status' = ack_status)
       /\ (last_op'.op = "ack" /\ last_op'.prev = NACKED) =>
            (raised'.exc = "AckException" /\ log' = log /\ ack_status' = ack_status)]_vars

\* an ack was requested on a NACKED message and refused
CrossRequestWitness ==
    \E m \in Msgs :
        /\ last_op = Op("ack", m, NACKED)
        /\ raised = Exc("AckException", "none")
        /\ ack_status[m] = NACKED

\* C4: an ack request on an ACKED message, and a nack request on a NACKED
\* message, raises nothing, calls no adapter method and changes no
\* ack_status, at every repetition.
RepeatedRequestIsNoOp ==
    [][/\ (last_op'.op = "ack" /\ last_op'.prev = ACKED) =>
            (raised' = NoExc /\ log' = log /\ ack_status' = ack_status)
       /\ (last_op'.op = "nack" /\ last_op'.prev = NACKED) =>
            (raised' = NoExc /\ log' = log /\ ack_status' = ack_status)]_vars

\* an ack was requested on an ACKED message; the adapter saw one ack for it
RepeatedRequestWitness ==
    \E m \in Msgs :
        /\ last_op = Op("ack", m, ACKED)
        /\ raised = NoExc
        /\ Cardinality({i \in DOMAIN log : log[i].msg = m}) = 1

\* C5: when the adapter call raises during an ack (nack) of a NONE message,
\* the message stays NONE and the caller gets AckException (NackException)
\* whose cause is the adapter's error.
AdapterFailureLeavesNone ==
    [][\A m \in Msgs :
          /\ (last_op' = Op("ack", m, NONE) /\ ack_status[m] = NONE
                /\ Len(log') > Len(log) /\ ~log'[Len(log')].ok) =>
                (ack_status'[m] = NONE /\ raised' = Exc("AckException", "BrokerError"))
          /\ (last_op' = Op("nack", m, NONE) /\ ack_status[m] = NONE
                /\ Len(log') > Len(log) /\ ~log'[Len(log')].ok) =>
                (ack_status'[m] = NONE /\ raised' = Exc("NackException", "BrokerError"))]_vars

\* an adapter reject_message failed on a NONE message
AdapterFailureWitness ==
    \E m \in Msgs :
        /\ last_op = Op("nack", m, NONE)
        /\ log # <<>> /\ log[Len(log)] = Call("reject_message", m, FALSE)
        /\ ack_status[m] = NONE
        /\ raised = Exc("NackException", "BrokerError")

\* ======================================================================
\* SpecSub: one QueueSubResource (open_sub) over RabbitMQSub.message_generator
\* ======================================================================
\* the adapter calls of one kind in a log, in order
CallsOf(lg, op) == SelectSeq(lg, LAMBDA c : c.op = op)
\* the messages a sequence of adapter calls was made for
MsgsOf(calls) == [i \in DOMAIN calls |-> calls[i].msg]
\* <<0, 1, .., n-1>>
UpTo(n) == [i \in 1 .. n |-> i - 1]

GenResult(g, out, exc, calls) == [gen |-> g, out |-> out, exc |-> exc, calls |-> calls]

\* the close() and connect() of k reconnect cycles, each after a receive
\* that failed with a retriable error
RECURSIVE Retried(_)
Retried(k) ==
    IF k = 0 THEN <<>>
    ELSE <<Call("fetch", NoMsg, FALSE), Call("close", NoMsg, TRUE),
           Call("connect", NoMsg, TRUE)>> \o Retried(k - 1)

FetchResult(out, exc, calls) == [out |-> out, exc |-> exc, calls |-> calls]

\* one step of RabbitMQSub._iter_messages, a next(iterator) under
\* auto_retry_call: after k retried failures the receive gives a message
\* ("msg", the one at position pos), gives nothing within the timeout
\* ("idle": None is yielded) or raises out of its retries ("fail")
_iter_messages(pos, got, k) ==
    IF got = "msg"
    THEN FetchResult(pos, "none", Retried(k) \o <<Call("fetch", pos, TRUE)>>)
    ELSE IF got = "idle"
    THEN FetchResult(NoMsg, "none", Retried(k) \o <<Call("fetch", NoMsg, TRUE)>>)
    ELSE FetchResult(NoMsg, "BrokerError",
                     Retried(k) \o <<Call("fetch", NoMsg, FALSE)>>)

\* faulty variant: the generator acks the message it yielded before it
\* receives the next one
message_generator_resume_acks(g, got, k) ==
    LET f == _iter_messages(g.pos, got, k)
        acked == IF g.st = "at_yield"
                 THEN <<Call("ack_message", g.pos - 1, TRUE)>> ELSE <<>>
    IN  IF g.st = "finished"
        THEN GenResult(g, NoMsg, "StopAsyncIteration", <<>>)
        ELSE IF f.exc # "none"
        THEN GenResult([g EXCEPT !.st = "finished"], NoMsg, f.exc,
                       acked \o Append(f.calls, Call("cancel", NoMsg, TRUE)))
        ELSE IF f.out # NoMsg
        THEN GenResult([st |-> "at_yield", pos |-> g.pos + 1], f.out, "none",
                       acked \o f.calls)
        ELSE GenResult([g EXCEPT !.st = "finished"], NoMsg, "StopAsyncIteration",
                       acked \o Append(f.calls, Call("cancel", NoMsg, TRUE)))

\* faulty variant: a receive that times out is an error
message_generator_resume_timeout_error(g, got, k) ==
    LET f == _iter_messages(g.pos, got, k)
    IN  IF g.st = "finished"
        THEN GenResult(g, NoMsg, "StopAsyncIteration", <<>>)
        ELSE IF f.exc # "none"
        THEN GenResult([g EXCEPT !.st = "finished"], NoMsg, f.exc,
                       Append(f.calls, Call("cancel", NoMsg, TRUE)))
        ELSE IF f.out # NoMsg
        THEN GenResult([st |-> "at_yield", pos |-> g.pos + 1], f.out, "none",
                       f.calls)
        ELSE GenResult([g EXCEPT !.st = "finished"], NoMsg, "TimeoutError",
                       Append(f.calls, Call("cancel", NoMsg, TRUE)))

\* RabbitMQSub.message_generator resumed by __anext__(): a finished
\* generator raises StopAsyncIteration; otherwise the loop asks
\* _iter_messages for the next item: an exception leaves through the
\* finally clause, a message is yielded, and None (idle) breaks the loop;
\* the finally clause cancels the channel
message_generator_resume(g, got, k) ==
    LET f == _iter_messages(g.pos, got, k)
    IN  IF g.st = "finished"
        THEN GenResult(g, NoMsg, "StopAsyncIteration", <<>>)
        ELSE IF f.exc # "none"
        THEN GenResult([g EXCEPT !.st = "finished"], NoMsg, f.exc,
                       Append(f.calls, Call("cancel", NoMsg, TRUE)))
        ELSE IF f.out # NoMsg
        THEN GenResult([st |-> "at_yield", pos |-> g.pos + 1], f.out, "none",
                       f.calls)
        ELSE GenResult([g EXCEPT !.st = "finished"], NoMsg, "StopAsyncIteration",
                       Append(f.calls, Call("cancel", NoMsg, TRUE)))

\* the same for a broker that holds `bl` messages and delivers each at
\* once: `err` is whether the receive raises out of its retries, and the
\* receive after the last message is idle
message_generator_anext(g, bl, err) ==
    message_generator_resume(g, IF err THEN "fail"
                                ELSE IF g.pos < bl THEN "msg" ELSE "idle", 0)

\* asyncio.CancelledError derives from BaseException, not from Exception
IsBaseException(exc) == exc = "CancelledError"

\* faulty variant: the generator swallows the thrown exception whatever
\* propagate_error says
message_generator_athrow_swallow(g, propagate_error, base) ==
    IF g.st = "at_yield"
    THEN GenResult([g EXCEPT !.st = "at_none"], NoMsg, "none", <<>>)
    ELSE IF g.st = "finished"
    THEN GenResult(g, NoMsg, "none", <<>>)
    ELSE GenResult([g EXCEPT !.st = "finished"], NoMsg, "thrown",
                   IF g.st = "unstarted" THEN <<>> ELSE <<Call("cancel", NoMsg, TRUE)>>)

\* RabbitMQSub.message_generator resumed by athrow(exc):
\*  - not started: the exception is raised at the top of the body, outside
\*    every try, and the generator is finished;
\*  - suspended at `yield msg`: `except Exception` re-raises it when
\*    propagate_error, otherwise yields None; an exception that is not an
\*    Exception (`base`: asyncio.CancelledError) passes that clause by;
\*  - suspended at `yield None` (inside the except clause): it propagates;
\*  - finished: awaiting athrow() returns None without raising.
message_generator_athrow(g, propagate_error, base) ==
    IF g.st = "unstarted"
    THEN GenResult([g EXCEPT !.st = "finished"], NoMsg, "thrown", <<>>)
    ELSE IF g.st = "at_yield"
    THEN IF propagate_error \/ base
         THEN GenResult([g EXCEPT !.st = "finished"], NoMsg, "thrown",
                        <<Call("cancel", NoMsg, TRUE)>>)
         ELSE GenResult([g EXCEPT !.st = "at_none"], NoMsg, "none", <<>>)
    ELSE IF g.st = "at_none"
    THEN GenResult([g EXCEPT !.st = "finished"], NoMsg, "thrown",
                   <<Call("cancel", NoMsg, TRUE)>>)
    ELSE GenResult(g, NoMsg, "none", <<>>)

\* faulty variant: the previous message is not acked before the next fetch
ack_previous_skip(st, lg, m, ok) == Result(st, lg, NoExc)

\* faulty variant: the previous message is acked even if the user nacked it
ack_previous_nacked_too(st, lg, m, ok) ==
    IF m # NoMsg
    THEN _safe_ack(st, lg, m, ok)
    ELSE Result(st, lg, NoExc)

\* __anext__: ack the previous message before getting a new one
\* (unless it was already nacked)
ack_previous(st, lg, m, ok) ==
    IF m # NoMsg /\ st[m] # NACKED
    THEN _safe_ack(st, lg, m, ok)
    ELSE Result(st, lg, NoExc)

\* faulty variant: the Consumer is closed before the current message is acked
aexit_good_close_first(st, lg, m, ok) ==
    LET closed == Append(lg, Call("close", NoMsg, TRUE))
        r == IF m # NoMsg /\ st[m] # NACKED
             THEN _safe_ack(st, closed, m, ok)
             ELSE Result(st, closed, NoExc)
    IN  r

\* __aexit__ without an exception: ack the yielded message (unless it was
\* already nacked), then close the Consumer and return True
aexit_good(st, lg, m, ok) ==
    LET r == IF m # NoMsg /\ st[m] # NACKED
             THEN _safe_ack(st, lg, m, ok)
             ELSE Result(st, lg, NoExc)
    IN  IF r.raised # NoExc
        THEN r
        ELSE Result(r.ack_status, Append(r.log, Call("close", NoMsg, TRUE)), NoExc)

ExitResult(st, lg, g, e) == [ack_status |-> st, log |-> lg, gen |-> g, raised |-> e]

\* faulty variant: the exception exit acks the current message instead of
\* nacking it
aexit_exception_acks(st, lg, g, m, exc, ee, ok) ==
    LET r == IF m # NoMsg THEN _safe_ack(st, lg, m, ok) ELSE Result(st, lg, NoExc)
        t == message_generator_athrow(g, ~ee, IsBaseException(exc))
    IN  IF r.raised # NoExc
        THEN ExitResult(r.ack_status, r.log, g, r.raised)
        ELSE ExitResult(r.ack_status,
                        Append(r.log \o t.calls, Call("close", NoMsg, TRUE)),
                        t.gen,
                        IF t.exc = "thrown" THEN Exc(exc, "none") ELSE NoExc)

\* faulty variant: the exception exit nacks the first message of the
\* iteration instead of the current one
aexit_exception_nacks_first(st, lg, g, m, exc, ee, ok) ==
    LET r == IF m # NoMsg
             THEN Result([st EXCEPT ![0] = NACKED],
                         Append(lg, Call("reject_message", 0, TRUE)), NoExc)
             ELSE Result(st, lg, NoExc)
        t == message_generator_athrow(g, ~ee, IsBaseException(exc))
    IN  IF r.raised # NoExc
        THEN ExitResult(r.ack_status, r.log, g, r.raised)
        ELSE ExitResult(r.ack_status,
                        Append(r.log \o t.calls, Call("close", NoMsg, TRUE)),
                        t.gen,
                        IF t.exc = "thrown" THEN Exc(exc, "none") ELSE NoExc)

\* __aexit__ with exception `exc`: nack the yielded message, throw the
\* exception into the generator (propagate_error = not except_errors), close
\* the Consumer, and propagate the exception iff the generator re-raised it
aexit_exception(st, lg, g, m, exc, ee, ok) ==
    LET r == IF m # NoMsg THEN _safe_nack(st, lg, m, ok) ELSE Result(st, lg, NoExc)
        t == message_generator_athrow(g, ~ee, IsBaseException(exc))
    IN  IF r.raised # NoExc
        THEN ExitResult(r.ack_status, r.log, g, r.raised)
        ELSE ExitResult(r.ack_status,
                        Append(r.log \o t.calls, Call("close", NoMsg, TRUE)),
                        t.gen,
                        IF t.exc = "thrown" THEN Exc(exc, "none") ELSE NoExc)

StatusOf(m) == IF m = NoMsg THEN NONE ELSE ack_status[m]

InitSub ==
    /\ MsgIdle
    /\ RegistryIdle
    /\ ConnIdle
    /\ RetryIdle
    /\ ManualIdle
    /\ except_errors \in BOOLEAN
    /\ backlog \in 0 .. MaxMsgs
    /\ ack_status = [m \in Msgs |-> NONE]
    /\ log = <<>>
    /\ raised = NoExc
    /\ last_op = NoOp
    /\ ctx = "new"
    /\ gen = [st |-> "unstarted", pos |-> 0]
    /\ sub_msg = NoMsg
    /\ loop = "none"
    /\ pending_exc = "none"
    /\ yielded = <<>>
    /\ nacked_by_user = {}
    /\ round = 0
    /\ broker = UpTo(backlog)

EnterOutcome(c, e, created) == [ctx |-> c, raised |-> e, created |-> created]

\* faulty variant: no re-entry check
aenter_reentrant(c) == EnterOutcome("entered", NoExc, TRUE)

\* QueueSubResource.__aenter__ on an instance in state `c`: an instance that
\* already has its Consumer and generator refuses, otherwise the Consumer
\* and its message_generator are created
aenter(c) ==
    IF c # "new"
    THEN EnterOutcome(c, Exc("RuntimeError", "none"), FALSE)
    ELSE EnterOutcome("entered", NoExc, TRUE)

\* `async with s`: __aenter__, the first time or again; `round` counts the
\* Consumers created on the Queue
AEnter ==
    /\ UNCHANGED <<ConnVars, RegistryVars, MsgVars, RetryVars, ManualVars, BrokerVars>>
    /\ pending_exc = "none" \/ ctx = "exited"
    /\ LET r == aenter(ctx)
       IN  /\ ctx' = r.ctx
           /\ raised' = r.raised
           /\ round' = IF r.created THEN round + 1 ELSE round
           /\ gen' = IF r.created THEN [st |-> "unstarted", pos |-> 0] ELSE gen
           \* raised inside the block of the entered instance, it leaves
           \* that block
           /\ pending_exc' = IF ctx = "entered" THEN r.raised.exc ELSE pending_exc
    /\ last_op' = Op("aenter", NoMsg, NONE)
    /\ UNCHANGED <<except_errors, ack_status, log, sub_msg, loop,
                   yielded, nacked_by_user, backlog>>

\* what the broker holds for the next Consumer: the deliveries `b` of this
\* one without those it acked
Redelivered(b, st) ==
    LET keep == {j \in DOMAIN b : st[j - 1] # ACKED}
        RECURSIVE Sub(_, _)
        Sub(j, acc) == IF j > Len(b) THEN acc
                       ELSE Sub(j + 1, IF j \in keep THEN Append(acc, b[j]) ELSE acc)
    IN  Sub(1, <<>>)

\* Queue.open_sub() once more: a fresh QueueSubResource; the messages the
\* previous Consumer acked have left the queue, the others are redelivered
OpenSub ==
    /\ UNCHANGED <<ConnVars, RegistryVars, MsgVars, RetryVars, ManualVars>>
    /\ ctx = "exited"
    /\ round < MaxRounds
    /\ ctx' = "new"
    /\ broker' = Redelivered(broker, ack_status)
    /\ backlog' = Len(broker')
    /\ ack_status' = [m \in Msgs |-> NONE]
    /\ log' = <<>>
    /\ raised' = NoExc
    /\ gen' = [st |-> "unstarted", pos |-> 0]
    /\ sub_msg' = NoMsg
    /\ loop' = "none"
    /\ pending_exc' = "none"
    /\ yielded' = <<>>
    /\ nacked_by_user' = {}
    /\ last_op' = Op("open_sub", NoMsg, NONE)
    /\ UNCHANGED <<except_errors, round>>

\* faulty variant: the generator is advanced twice and the first message
\* dropped
anext_get_skips(g, bl, err) ==
    LET t == message_generator_anext(g, bl, err)
        u == message_generator_anext(t.gen, bl, err)
    IN  IF t.exc # "none" THEN t
        ELSE GenResult(u.gen, u.out, u.exc, t.calls \o u.calls)

\* the part of __anext__ after the ack: advance the generator once and hand
\* on what it yields or raises; a yielded None is refused with RuntimeError
anext_get(g, bl, err) ==
    LET t == message_generator_anext(g, bl, err)
    IN  IF t.exc = "none" /\ t.out = NoMsg
        THEN GenResult(t.gen, NoMsg, "RuntimeError", t.calls)
        ELSE t

\* faulty variant: the generator is advanced before the previous message
\* is acked
anext_log_fetch_first(lg, acked, calls) ==
    lg \o calls \o SubSeq(acked, Len(lg) + 1, Len(acked))

\* the adapter calls of one __anext__ in the order the code makes them:
\* `acked` is the log `lg` after the ack of the previous message, `calls`
\* are those the generator makes when advanced
anext_log(lg, acked, calls) == acked \o calls

\* faulty variant: the acked message stays the current one at the end
anext_end_of_stream_keeps(m) == m

\* self.msg once the generator raised StopAsyncIteration: no message is
\* left to ack or nack in __aexit__
anext_end_of_stream(m) == NoMsg

\* QueueSubResource.__anext__
ANext ==
    /\ UNCHANGED <<ConnVars, RegistryVars, MsgVars, RetryVars, ManualVars>>
    /\ ctx = "entered"
    /\ pending_exc = "none"
    /\ \E ok \in Outcomes(log), err \in {~o : o \in Outcomes(log)} :
        LET r == ack_previous(ack_status, log, sub_msg, ok)
            t == anext_get(gen, backlog, err)
        IN  /\ last_op' = Op("anext", sub_msg, StatusOf(sub_msg))
            /\ ack_status' = r.ack_status
            /\ IF r.raised # NoExc
               THEN \* the ack failed: AckException leaves __anext__
                    /\ log' = r.log
                    /\ raised' = r.raised
                    /\ pending_exc' = r.raised.exc
                    /\ UNCHANGED <<gen, sub_msg, loop, yielded>>
               ELSE /\ log' = anext_log(log, r.log, t.calls)
                    /\ gen' = t.gen
                    /\ IF t.exc = "StopAsyncIteration"
                       THEN /\ sub_msg' = anext_end_of_stream(sub_msg)
                            /\ loop' = "exhausted"
                            /\ raised' = Exc("StopAsyncIteration", "none")
                            /\ UNCHANGED <<pending_exc, yielded>>
                       ELSE IF t.exc # "none"
                       THEN /\ raised' = Exc(t.exc, "none")
                            /\ pending_exc' = t.exc
                            /\ UNCHANGED <<sub_msg, loop, yielded>>
                       ELSE /\ sub_msg' = t.out
                            /\ loop' = "iterating"
                            /\ yielded' = Append(yielded, t.out)
                            /\ raised' = NoExc
                            /\ UNCHANGED pending_exc
    /\ UNCHANGED <<except_errors, ctx, nacked_by_user, backlog, round, broker>>

\* the task is cancelled while __anext__, the previous message acked, awaits
\* the generator: CancelledError comes out of the generator through its
\* finally clause, and out of __anext__ into the with-block
ANextCancelled ==
    /\ UNCHANGED <<ConnVars, RegistryVars, MsgVars, RetryVars, ManualVars, BrokerVars>>
    /\ ctx = "entered"
    /\ pending_exc = "none"
    /\ gen.st # "finished"
    /\ LET r == ack_previous(ack_status, log, sub_msg, TRUE)
       IN  /\ ack_status' = r.ack_status
           /\ log' = Append(r.log, Call("cancel", NoMsg, TRUE))
    /\ gen' = [gen EXCEPT !.st = "finished"]
    /\ raised' = Exc("CancelledError", "none")
    /\ pending_exc' = "CancelledError"
    /\ last_op' = Op("anext_cancelled", sub_msg, StatusOf(sub_msg))
    /\ UNCHANGED <<except_errors, ctx, sub_msg, loop, yielded, nacked_by_user,
                   backlog, round>>

\* QueueSubResource.nack_current
NackCurrent ==
    /\ UNCHANGED <<ConnVars, RegistryVars, MsgVars, RetryVars, ManualVars, BrokerVars>>
    /\ ctx = "entered"
    /\ pending_exc = "none"
    /\ \E ok \in Outcomes(log) :
        LET r == IF sub_msg = NoMsg
                 THEN Result(ack_status, log, NoExc)
                 ELSE _safe_nack(ack_status, log, sub_msg, ok)
        IN  /\ last_op' = Op("nack_current", sub_msg, StatusOf(sub_msg))
            /\ ack_status' = r.ack_status
            /\ log' = r.log
            /\ raised' = r.raised
            /\ pending_exc' = r.raised.exc
            /\ nacked_by_user' = IF sub_msg = NoMsg THEN nacked_by_user
                                 ELSE nacked_by_user \cup {sub_msg}
    /\ UNCHANGED <<except_errors, ctx, gen, sub_msg, loop, yielded, backlog, round>>

\* the user leaves the `async for` loop with break: no library code runs
Break ==
    /\ UNCHANGED <<ConnVars, RegistryVars, MsgVars, RetryVars, ManualVars, BrokerVars>>
    /\ ctx = "entered"
    /\ pending_exc = "none"
    /\ loop = "iterating"
    /\ loop' = "broken"
    /\ last_op' = Op("break", sub_msg, StatusOf(sub_msg))
    /\ UNCHANGED <<except_errors, ack_status, log, raised, ctx, gen, sub_msg,
                   pending_exc, yielded, nacked_by_user, backlog, round>>

\* QueueSubResource.__aexit__(None, None, None): the with-block ended
AExitGood ==
    /\ UNCHANGED <<ConnVars, RegistryVars, MsgVars, RetryVars, ManualVars, BrokerVars>>
    /\ ctx = "entered"
    /\ pending_exc = "none"
    /\ \E ok \in Outcomes(log) :
        LET r == aexit_good(ack_status, log, sub_msg, ok)
        IN  /\ ack_status' = r.ack_status
            /\ log' = r.log
            /\ raised' = r.raised
    /\ ctx' = "exited"
    /\ last_op' = Op("aexit", sub_msg, StatusOf(sub_msg))
    /\ UNCHANGED <<except_errors, gen, sub_msg, loop, pending_exc, yielded,
                   nacked_by_user, backlog, round>>

\* QueueSubResource.__aexit__(exc_type, exc_val, exc_tb): an exception left the
\* with-block -- one raised by __anext__/nack_current, or one the user raises
AExitException ==
    /\ UNCHANGED <<ConnVars, RegistryVars, MsgVars, RetryVars, ManualVars, BrokerVars>>
    /\ ctx = "entered"
    /\ \E exc \in (IF pending_exc = "none" THEN {"UserError", "CancelledError"}
                                          ELSE {pending_exc}),
          ok \in Outcomes(log) :
        LET r == aexit_exception(ack_status, log, gen, sub_msg, exc,
                                 except_errors, ok)
        IN  /\ ack_status' = r.ack_status
            /\ log' = r.log
            /\ gen' = r.gen
            /\ raised' = r.raised
            /\ pending_exc' = exc
    /\ ctx' = "exited"
    /\ last_op' = Op("aexit", sub_msg, StatusOf(sub_msg))
    /\ UNCHANGED <<except_errors, sub_msg, loop, yielded, nacked_by_user,
                   backlog, round>>

NextSub ==
    \/ AEnter \/ ANext \/ NackCurrent \/ Break \/ AExitGood \/ AExitException
    \/ OpenSub \/ ANextCancelled

SpecSub == InitSub /\ [][NextSub]_vars

AckCalls == CallsOf(log, "ack_message")
RejectCalls == CallsOf(log, "reject_message")
\* the exit took the no-exception branch and __aexit__ returned
ExitedGood ==
    last_op.op = "aexit" /\ ctx = "exited" /\ pending_exc = "none" /\ raised = NoExc
\* the user raised and __aexit__ ran with that exception
ExitedOnUserError ==
    last_op.op = "aexit" /\ ctx = "exited" /\ pending_exc = "UserError"

\* ----------------------------------------------------------------------
\* C6: after an open_sub context completed without an exception (iterator
\* exhausted or loop left early), having yielded N messages and with no
\* manual nack, the adapter has seen exactly N acks, one per yielded message
\* in yield order, all successful, and no nack.
GoodExitAcksEveryYielded ==
    (ExitedGood /\ nacked_by_user = {}) =>
        /\ MsgsOf(AckCalls) = yielded
        /\ \A i \in DOMAIN AckCalls : AckCalls[i].ok
        /\ RejectCalls = <<>>

\* a context left with break after two messages has exited
GoodExitWitness ==
    /\ ExitedGood
    /\ nacked_by_user = {}
    /\ loop = "broken"
    /\ Len(yielded) = 2
    /\ Len(AckCalls) = 2

\* C7 (as stated): if the user raises while processing the k-th yielded
\* message, then once the context has exited the adapter has seen exactly k
\* acks, for messages 0..k-1, and exactly one nack, for message k.
UserRaiseAcksKNacksOne ==
    (ExitedOnUserError /\ sub_msg # NoMsg) =>
        /\ MsgsOf(AckCalls) = UpTo(sub_msg)
        /\ MsgsOf(RejectCalls) = <<sub_msg>>

\* C7 (amended): the same, provided nack_current() was not called on an
\* earlier yielded message.
UserRaiseAcksKNacksOneUnlessManual ==
    (ExitedOnUserError /\ sub_msg # NoMsg /\ nacked_by_user \subseteq {sub_msg}) =>
        /\ MsgsOf(AckCalls) = UpTo(sub_msg)
        /\ MsgsOf(RejectCalls) = <<sub_msg>>

\* the user raised on the third message (k = 2): two acks, one nack
UserRaiseWitness ==
    /\ ExitedOnUserError
    /\ sub_msg = 2
    /\ nacked_by_user = {}
    /\ MsgsOf(AckCalls) = <<0, 1>>
    /\ MsgsOf(RejectCalls) = <<2>>

\* C8: a user exception raised in the with-block (before the first fetch,
\* while a message is current, or after the iterator is exhausted) is
\* suppressed when except_errors is true and reaches the caller, after the
\* Consumer was closed, when except_errors is false.
UserExceptionFollowsExceptErrors ==
    (ExitedOnUserError /\ Failed(log) = {}) =>
        /\ log # <<>> /\ log[Len(log)].op = "close"
        /\ raised = IF except_errors THEN NoExc ELSE Exc("UserError", "none")

\* C9: leaving the loop with break while the yielded message is unresolved
\* is a good exit: __aexit__ issues the ack for that message, never a nack,
\* and closes the Consumer only after the ack went through.
BreakExitAcksThenCloses ==
    [][(/\ ctx = "entered" /\ ctx' = "exited"
        /\ loop = "broken" /\ pending_exc' = "none"
        /\ sub_msg # NoMsg /\ ack_status[sub_msg] = NONE) =>
          /\ \E ok \in BOOLEAN :
                /\ log' = log \o (IF ok
                                  THEN <<Call("ack_message", sub_msg, TRUE),
                                         Call("close", NoMsg, TRUE)>>
                                  ELSE <<Call("ack_message", sub_msg, FALSE)>>)
                /\ (ok => ack_status'[sub_msg] = ACKED)
          /\ \A i \in DOMAIN log' :
                ~(log'[i].op = "reject_message" /\ log'[i].msg = sub_msg)]_vars

\* a context left with break acked the unresolved message, then closed
BreakExitWitness ==
    /\ ctx = "exited" /\ loop = "broken" /\ pending_exc = "none"
    /\ last_op = Op("aexit", sub_msg, NONE)
    /\ sub_msg # NoMsg
    /\ ack_status[sub_msg] = ACKED
    /\ Len(log) >= 2
    /\ log[Len(log) - 1] = Call("ack_message", sub_msg, TRUE)
    /\ log[Len(log)] = Call("close", NoMsg, TRUE)

\* ======================================================================
\* SpecOne: open_sub_one contexts opened one after the other on one Queue
\* ======================================================================
EnterResult(c, lg, m, ys, e) ==
    [ctx |-> c, log |-> lg, sub_msg |-> m, yielded |-> ys, raised |-> e]

\* faulty variant: with no message the block is entered with nothing to ack
\* and the Consumer is left open
open_sub_one_enter_leak(got) ==
    IF got = "error"
    THEN EnterResult("exited", <<Call("fetch", NoMsg, FALSE)>>, NoMsg, <<>>,
                     Exc("BrokerError", "none"))
    ELSE IF got = "none"
    THEN EnterResult("exited", <<Call("fetch", NoMsg, TRUE)>>, NoMsg, <<>>,
                     Exc("EmptyQueueException", "none"))
    ELSE EnterResult("entered", <<Call("fetch", 0, TRUE)>>, 0, <<0>>, NoExc)

\* open_sub_one up to its yield: create the Consumer and get one message;
\* `got` is what get_message did: returned a Message ("msg"), returned None
\* after the timeout ("none"), or raised ("error")
open_sub_one_enter(got) ==
    IF got = "error"
    THEN EnterResult("exited", <<Call("fetch", NoMsg, FALSE)>>, NoMsg, <<>>,
                     Exc("BrokerError", "none"))
    ELSE IF got = "none"
    THEN EnterResult("exited",
                     <<Call("fetch", NoMsg, TRUE), Call("close", NoMsg, TRUE)>>,
                     NoMsg, <<>>, Exc("EmptyQueueException", "none"))
    ELSE EnterResult("entered", <<Call("fetch", 0, TRUE)>>, 0, <<0>>, NoExc)

\* open_sub_one after its yield, the block having ended normally:
\* else-clause ack, then the finally clause closes the Consumer
open_sub_one_exit_good(st, lg, m, ok) ==
    LET r == _safe_ack(st, lg, m, ok)
    IN  Result(r.ack_status, Append(r.log, Call("close", NoMsg, TRUE)), r.raised)

open_sub_one_exit_exception_suppress(st, lg, m, ee, ok) ==
    LET r == _safe_nack(st, lg, m, ok)
    IN  Result(r.ack_status, Append(r.log, Call("close", NoMsg, TRUE)), r.raised)

\* open_sub_one after its yield, the block having raised: nack, re-raise
\* unless except_errors, and the finally clause closes the Consumer
open_sub_one_exit_exception(st, lg, m, ee, ok) ==
    LET r == _safe_nack(st, lg, m, ok)
    IN  Result(r.ack_status, Append(r.log, Call("close", NoMsg, TRUE)),
               IF r.raised # NoExc THEN r.raised
               ELSE IF ee THEN NoExc ELSE Exc("UserError", "none"))

InitOne ==
    /\ MsgIdle
    /\ RegistryIdle
    /\ ConnIdle
    /\ BrokerIdle
    /\ RetryIdle
    /\ ManualIdle
    /\ except_errors \in BOOLEAN
    /\ backlog \in 0 .. MaxMsgs
    /\ ack_status = [m \in Msgs |-> NONE]
    /\ log = <<>>
    /\ raised = NoExc
    /\ last_op = NoOp
    /\ ctx = "new"
    /\ gen = [st |-> "unstarted", pos |-> 0]
    /\ sub_msg = NoMsg
    /\ loop = "none"
    /\ pending_exc = "none"
    /\ yielded = <<>>
    /\ nacked_by_user = {}
    /\ round = 0

\* `async with q.open_sub_one()`: a new Consumer with its own Messages
OpenSubOneEnter ==
    /\ UNCHANGED <<ConnVars, RegistryVars, MsgVars, RetryVars, ManualVars, BrokerVars>>
    /\ ctx \in {"new", "exited"}
    /\ round < MaxRounds
    /\ \E got \in (IF backlog > 0 THEN {"msg", "error"} ELSE {"none", "error"}) :
        LET r == open_sub_one_enter(got)
        IN  /\ ctx' = r.ctx
            /\ log' = r.log
            /\ sub_msg' = r.sub_msg
            /\ yielded' = r.yielded
            /\ raised' = r.raised
    /\ ack_status' = [m \in Msgs |-> NONE]
    /\ pending_exc' = "none"
    /\ round' = round + 1
    /\ last_op' = Op("open_sub_one", NoMsg, NONE)
    /\ UNCHANGED <<except_errors, gen, loop, nacked_by_user, backlog>>

\* the block of open_sub_one ends without an exception
OpenSubOneExitGood ==
    /\ UNCHANGED <<ConnVars, RegistryVars, MsgVars, RetryVars, ManualVars, BrokerVars>>
    /\ ctx = "entered"
    /\ \E ok \in BOOLEAN :
        LET r == open_sub_one_exit_good(ack_status, log, sub_msg, ok)
        IN  /\ ack_status' = r.ack_status
            /\ log' = r.log
            /\ raised' = r.raised
            \* an acked message leaves the broker's queue
            /\ backlog' = IF r.ack_status[sub_msg] = ACKED THEN backlog - 1 ELSE backlog
    /\ ctx' = "exited"
    /\ last_op' = Op("exit_one", sub_msg, StatusOf(sub_msg))
    /\ UNCHANGED <<except_errors, gen, sub_msg, loop, pending_exc, yielded,
                   nacked_by_user, round>>

\* the block of open_sub_one raises
OpenSubOneExitException ==
    /\ UNCHANGED <<ConnVars, RegistryVars, MsgVars, RetryVars, ManualVars, BrokerVars>>
    /\ ctx = "entered"
    /\ \E ok \in BOOLEAN :
        LET r == open_sub_one_exit_exception(ack_status, log, sub_msg,
                                             except_errors, ok)
        IN  /\ ack_status' = r.ack_status
            /\ log' = r.log
            /\ raised' = r.raised
    /\ ctx' = "exited"
    /\ pending_exc' = "UserError"
    /\ last_op' = Op("exit_one", sub_msg, StatusOf(sub_msg))
    /\ UNCHANGED <<except_errors, gen, sub_msg, loop, yielded, nacked_by_user,
                   backlog, round>>

NextOne == OpenSubOneEnter \/ OpenSubOneExitGood \/ OpenSubOneExitException

SpecOne == InitOne /\ [][NextOne]_vars

PubResult(lg, e) == [log |-> lg, raised |-> e]

\* QueuePubResource.send: one send_message call on the Producer, whose
\* exception is not caught
send(lg, n, ok) ==
    PubResult(Append(lg, Call("send_message", n, ok)),
              IF ok THEN NoExc ELSE Exc("BrokerError", "none"))

\* faulty variant: the Producer is closed on the normal path only
open_pub_exit_no_finally(lg, exc) ==
    IF exc = "none"
    THEN PubResult(Append(lg, Call("close", NoMsg, TRUE)), NoExc)
    ELSE PubResult(lg, Exc(exc, "none"))

\* open_pub after its yield: the finally clause closes the Producer, then
\* the exception that left the block (if any) propagates
open_pub_exit(lg, exc) ==
    PubResult(Append(lg, Call("close", NoMsg, TRUE)),
              IF exc = "none" THEN NoExc ELSE Exc(exc, "none"))

InitPub ==
    /\ MsgIdle
    /\ RegistryIdle
    /\ ConnIdle
    /\ BrokerIdle
    /\ RetryIdle
    /\ ManualIdle
    /\ except_errors \in BOOLEAN
    /\ backlog = 0
    /\ ack_status = [m \in Msgs |-> NONE]
    /\ log = <<>>
    /\ raised = NoExc
    /\ last_op = NoOp
    /\ ctx = "new"
    /\ gen = [st |-> "unstarted", pos |-> 0]
    /\ sub_msg = NoMsg
    /\ loop = "none"
    /\ pending_exc = "none"
    /\ yielded = <<>>
    /\ nacked_by_user = {}
    /\ round = 0

PubFrame == UNCHANGED <<except_errors, ack_status, gen, sub_msg, loop, yielded,
                        nacked_by_user, RetryVars, ManualVars,
                        BrokerVars, MsgVars,
                   RegistryVars,
                   ConnVars>>

\* `async with q.open_pub() as p`: a new Producer
OpenPubEnter ==
    /\ ctx \in {"new", "exited"}
    /\ round < MaxRounds
    /\ ctx' = "entered"
    /\ log' = <<>>
    /\ raised' = NoExc
    /\ pending_exc' = "none"
    /\ round' = round + 1
    /\ last_op' = Op("open_pub", NoMsg, NONE)
    /\ UNCHANGED backlog
    /\ PubFrame

\* `await p.send(data)` inside the block; a failure leaves the block
PubSend ==
    /\ ctx = "entered"
    /\ pending_exc = "none"
    /\ Len(CallsOf(log, "send_message")) < MaxSends
    /\ \E ok \in BOOLEAN :
        LET r == send(log, Len(log), ok)
        IN  /\ log' = r.log
            /\ raised' = r.raised
            /\ pending_exc' = r.raised.exc
            /\ backlog' = IF ok THEN backlog + 1 ELSE backlog
    /\ last_op' = Op("send", Len(log), NONE)
    /\ UNCHANGED <<ctx, round>>
    /\ PubFrame

\* the block ends, normally or by the exception of a send or of the user
OpenPubExit ==
    /\ ctx = "entered"
    /\ \E exc \in (IF pending_exc = "none" THEN {"none", "UserError"}
                                          ELSE {pending_exc}) :
        LET r == open_pub_exit(log, exc)
        IN  /\ log' = r.log
            /\ raised' = r.raised
            /\ pending_exc' = exc
    /\ ctx' = "exited"
    /\ last_op' = Op("exit_pub", NoMsg, NONE)
    /\ UNCHANGED <<backlog, round>>
    /\ PubFrame

NextPub == OpenPubEnter \/ PubSend \/ OpenPubExit

SpecPub == InitPub /\ [][NextPub]_vars

ReEnterRaises ==
    [][last_op'.op = "aenter" =>
          IF ctx = "new"
          THEN /\ ctx' = "entered"
               /\ raised' = NoExc
               /\ round' = round + 1
          ELSE /\ raised' = Exc("RuntimeError", "none")
               /\ ctx' = ctx
               /\ round' = round
               /\ <<log, gen, yielded, sub_msg, ack_status>>' =
                      <<log, gen, yielded, sub_msg, ack_status>>]_vars

\* a second instance was entered, iterated and left, and entering it once
\* more was refused
ReEnterWitness ==
    /\ round = 2
    /\ ctx = "exited"
    /\ yielded # <<>>
    /\ last_op.op = "aenter"
    /\ raised = Exc("RuntimeError", "none")

\* ----------------------------------------------------------------------
\* SpecRetry: one call of auto_retry_call, followed from one await to the next

\* a call the harness made: factory(), func(), close(), sleep(secs), connect();
\* `i` is the loop index it was made in, `out` is "ok" or the exception raised
Ev(ev, i, out, secs) == [ev |-> ev, i |-> i, out |-> out, secs |-> secs]
EvsOf(lg, ev) == SelectSeq(lg, LAMBDA e : e.ev = ev)

\* what one attempt of the wrapped operation can do
AttemptOutcomes == {"ok", "ErrA", "ErrB", "ChannelError"}
\* the classifier the RabbitMQ adapter passes: channel errors are fatal
nonretriable_conditions(e) == e = "ChannelError"

max(a, b) == IF a >= b THEN a ELSE b

RetryState(pc, i, lg, e) == [pc |-> pc, i |-> i, log |-> lg, raised |-> e]

\* faulty variant: `retries` is used as given
auto_retry_call_unclamped(n) ==
    IF 0 < n + 1
    THEN RetryState("attempt", 0, <<>>, NoExc)
    ELSE RetryState("done", 0, <<>>, Exc("Exception", "none"))

\* auto_retry_call up to the first iteration: clamp `retries` and start the
\* loop over range(retries + 1); an empty range falls through to the final
\* raise
auto_retry_call(n) ==
    IF 0 < max(n, 0) + 1
    THEN RetryState("attempt", 0, <<>>, NoExc)
    ELSE RetryState("done", 0, <<>>, Exc("Exception", "none"))

\* faulty variant: a fatal exception is retried like any other
attempt_retry_fatal(n, i, lg, out) ==
    LET called == lg \o <<Ev("factory", i, "ok", 0), Ev("func", i, out, 0)>>
    IN  IF out = "ok" THEN RetryState("done", i, called, NoExc)
        ELSE IF i = max(n, 0) THEN RetryState("done", i, called, Exc(out, "none"))
        ELSE RetryState("reconnect", i, called, NoExc)

\* faulty variant: the last attempt reconnects like the others
attempt_reconnect_after_last(n, i, lg, out) ==
    LET called == lg \o <<Ev("factory", i, "ok", 0), Ev("func", i, out, 0)>>
    IN  IF out = "ok" THEN RetryState("done", i, called, NoExc)
        ELSE IF nonretriable_conditions(out)
        THEN RetryState("done", i, called, Exc(out, "none"))
        ELSE RetryState("reconnect", i, called, NoExc)

\* iteration i of the loop up to its `close, wait, reconnect` part: get the
\* operation from factory, call it, return its result or handle its exception
attempt(n, i, lg, out) ==
    LET called == lg \o <<Ev("factory", i, "ok", 0), Ev("func", i, out, 0)>>
    IN  IF out = "ok" THEN RetryState("done", i, called, NoExc)
        ELSE IF nonretriable_conditions(out)
        THEN RetryState("done", i, called, Exc(out, "none"))
        ELSE IF i = max(n, 0) THEN RetryState("done", i, called, Exc(out, "none"))
        ELSE RetryState("reconnect", i, called, NoExc)

\* faulty variant: the connection is reopened before the wait, which is
\* as short as the caller asked
reconnect_hasty(n, d, i, lg, close_ok, connect_ok) ==
    LET called == lg \o <<Ev("close", i, IF close_ok THEN "ok" ELSE "CloseError", 0),
                          Ev("connect", i, IF connect_ok THEN "ok" ELSE "ConnectError", 0),
                          Ev("sleep", i, "ok", d)>>
    IN  IF ~connect_ok THEN RetryState("done", i, called, Exc("ConnectError", "none"))
        ELSE IF i + 1 < max(n, 0) + 1 THEN RetryState("attempt", i + 1, called, NoExc)
        ELSE RetryState("done", i, called, Exc("Exception", "none"))

\* faulty variant: an exception of connect() is swallowed like one of close()
reconnect_swallows_connect(n, d, i, lg, close_ok, connect_ok) ==
    LET called == lg \o <<Ev("close", i, IF close_ok THEN "ok" ELSE "CloseError", 0),
                          Ev("sleep", i, "ok", max(d, 1)),
                          Ev("connect", i, IF connect_ok THEN "ok" ELSE "ConnectError", 0)>>
    IN  IF i + 1 < max(n, 0) + 1 THEN RetryState("attempt", i + 1, called, NoExc)
        ELSE RetryState("done", i, called, Exc("Exception", "none"))

\* the `close, wait, reconnect` part of iteration i: close() with its
\* exception swallowed, sleep, connect() with its exception let through;
\* then the next iteration, or the raise after the loop
reconnect(n, d, i, lg, close_ok, connect_ok) ==
    LET called == lg \o <<Ev("close", i, IF close_ok THEN "ok" ELSE "CloseError", 0),
                          Ev("sleep", i, "ok", max(d, 1)),
                          Ev("connect", i, IF connect_ok THEN "ok" ELSE "ConnectError", 0)>>
    IN  IF ~connect_ok THEN RetryState("done", i, called, Exc("ConnectError", "none"))
        ELSE IF i + 1 < max(n, 0) + 1 THEN RetryState("attempt", i + 1, called, NoExc)
        ELSE RetryState("done", i, called, Exc("Exception", "none"))

InitRetry ==
    /\ MsgIdle
    /\ RegistryIdle
    /\ ConnIdle
    /\ BrokerIdle
    /\ ManualIdle
    /\ retries \in -1 .. MaxRetries
    /\ retry_delay \in 0 .. MaxDelay
    /\ retry_i = 0
    /\ retry_pc = "idle"
    /\ retry_log = <<>>
    /\ except_errors = TRUE
    /\ backlog = 0
    /\ ack_status = [m \in Msgs |-> NONE]
    /\ log = <<>>
    /\ raised = NoExc
    /\ last_op = NoOp
    /\ ctx = "new"
    /\ gen = [st |-> "unstarted", pos |-> 0]
    /\ sub_msg = NoMsg
    /\ loop = "none"
    /\ pending_exc = "none"
    /\ yielded = <<>>
    /\ nacked_by_user = {}
    /\ round = 0

RetryFrame == UNCHANGED <<except_errors, ack_status, log, last_op, ctx, gen,
                          sub_msg, loop, pending_exc, yielded, nacked_by_user,
                          backlog, round, retries, retry_delay, ManualVars,
                          BrokerVars, MsgVars,
                   RegistryVars,
                   ConnVars>>

SetRetryState(r) ==
    /\ retry_pc' = r.pc
    /\ retry_i' = r.i
    /\ retry_log' = r.log
    /\ raised' = r.raised

\* the adapter calls auto_retry_call(...)
AutoRetryCall ==
    /\ retry_pc = "idle"
    /\ SetRetryState(auto_retry_call(retries))
    /\ RetryFrame

\* one attempt of the wrapped operation
Attempt ==
    /\ retry_pc = "attempt"
    /\ \E out \in AttemptOutcomes :
        SetRetryState(attempt(retries, retry_i, retry_log, out))
    /\ RetryFrame

\* close, wait, reconnect
Reconnect ==
    /\ retry_pc = "reconnect"
    /\ \E close_ok \in BOOLEAN, connect_ok \in BOOLEAN :
        SetRetryState(reconnect(retries, retry_delay, retry_i, retry_log,
                                close_ok, connect_ok))
    /\ RetryFrame

NextRetry == AutoRetryCall \/ Attempt \/ Reconnect

SpecRetry == InitRetry /\ [][NextRetry]_vars

FuncCalls == EvsOf(retry_log, "func")
Retriable(out) == out # "ok" /\ ~nonretriable_conditions(out)

\* C15: one call of auto_retry_call invokes the wrapped operation at most
\* retries + 1 times, a negative `retries` counting as 0: then the call makes
\* exactly one attempt.
AtMostRetriesPlusOneAttempts ==
    /\ Len(FuncCalls) <= (IF retries < 0 THEN 0 ELSE retries) + 1
    /\ (retries < 0 /\ retry_pc = "done") => Len(FuncCalls) = 1

\* every allowed attempt was made, and a call with a negative `retries` made
\* its single attempt
AtMostAttemptsWitness ==
    /\ retry_pc = "done"
    /\ \/ retries = MaxRetries /\ Len(FuncCalls) = MaxRetries + 1
       \/ retries = -1 /\ Len(FuncCalls) = 1 /\ raised = Exc("ErrA", "none")

\* C16: when every attempt failed with a retriable exception (and every
\* connect returned), the finished call has made exactly retries + 1
\* attempts and exactly `retries` close-sleep-connect cycles, one after each
\* attempt but the last, and raises the exception of the last attempt.
AllAttemptsFailRetriable ==
    LET n == IF retries < 0 THEN 0 ELSE retries
    IN  ( /\ retry_pc = "done"
          /\ \A j \in DOMAIN retry_log :
                /\ retry_log[j].ev = "func" => Retriable(retry_log[j].out)
                /\ retry_log[j].ev = "connect" => retry_log[j].out = "ok" )
        => /\ Len(FuncCalls) = n + 1
           /\ Len(EvsOf(retry_log, "close")) = n
           /\ Len(EvsOf(retry_log, "connect")) = n
           /\ Len(retry_log) = 5 * n + 2
           /\ \A k \in 0 .. n :
                /\ retry_log[5 * k + 1].ev = "factory"
                /\ retry_log[5 * k + 2].ev = "func"
                /\ k < n => /\ retry_log[5 * k + 3].ev = "close"
                            /\ retry_log[5 * k + 4].ev = "sleep"
                            /\ retry_log[5 * k + 5].ev = "connect"
           /\ raised = Exc(retry_log[Len(retry_log)].out, "none")

\* three failed attempts with two reconnections between them; the caller
\* gets the exception of the third, not that of the first two
AllAttemptsFailWitness ==
    /\ retry_pc = "done"
    /\ retries = 2
    /\ [j \in DOMAIN FuncCalls |-> FuncCalls[j].out] = <<"ErrA", "ErrA", "ErrB">>
    /\ Len(EvsOf(retry_log, "connect")) = 2
    /\ raised = Exc("ErrB", "none")

\* C17: an attempt whose exception the classifier marks fatal is the last
\* thing auto_retry_call does: no close, sleep, connect or attempt follows
\* it, and the call has ended raising that exception.
FatalIsRaisedAtOnce ==
    \A j \in DOMAIN retry_log :
        (retry_log[j].ev = "func" /\ nonretriable_conditions(retry_log[j].out))
            => /\ j = Len(retry_log)
               /\ retry_pc = "done"
               /\ raised = Exc(retry_log[j].out, "none")

\* the second of three allowed attempts failed fatally
FatalWitness ==
    /\ retries = 2
    /\ retry_i = 1
    /\ retry_pc = "done"
    /\ Len(retry_log) = 7
    /\ retry_log[7] = Ev("func", 1, "ChannelError", 0)
    /\ raised = Exc("ChannelError", "none")

\* ----------------------------------------------------------------------
\* SpecManual: one open_sub_manual_acking(ack_pending_limit) context

IterResult(lg, out, e, lp) == [log |-> lg, out |-> out, raised |-> e, loop |-> lp]

\* faulty variant: the limit is compared after the message was counted
iter_messages_late_check(lg, pos, pend, limit, got) ==
    IF got = "error"
    THEN IterResult(Append(lg, Call("fetch", NoMsg, FALSE)), NoMsg,
                    Exc("BrokerError", "none"), "iterating")
    ELSE IF got = "none"
    THEN IterResult(Append(lg, Call("fetch", NoMsg, TRUE)), NoMsg, NoExc, "exhausted")
    ELSE IF pend > limit
    THEN IterResult(Append(lg, Call("fetch", pos, TRUE)), NoMsg,
                    Exc("TooManyMessagesPendingAckException", "none"), "iterating")
    ELSE IterResult(Append(lg, Call("fetch", pos, TRUE)), pos, NoExc, "iterating")

\* ManualQueueSubResource.iter_messages resumed: get a message; without one
\* the iteration ends; with `pend` messages pending at the limit the
\* exception is raised instead of the yield; otherwise message `pos` is
\* yielded
iter_messages(lg, pos, pend, limit, got) ==
    IF got = "error"
    THEN IterResult(Append(lg, Call("fetch", NoMsg, FALSE)), NoMsg,
                    Exc("BrokerError", "none"), "iterating")
    ELSE IF got = "none"
    THEN IterResult(Append(lg, Call("fetch", NoMsg, TRUE)), NoMsg, NoExc, "exhausted")
    ELSE IF pend >= limit
    THEN IterResult(Append(lg, Call("fetch", pos, TRUE)), NoMsg,
                    Exc("TooManyMessagesPendingAckException", "none"), "iterating")
    ELSE IterResult(Append(lg, Call("fetch", pos, TRUE)), pos, NoExc, "iterating")

\* ack_pending is (messages yielded) - (messages acked): an ack request that
\* took the message from `before` to ACKED takes one off
ack_pending_after(pend, before, after) ==
    IF before # ACKED /\ after = ACKED THEN pend - 1 ELSE pend

\* the yielded messages that are neither acked nor nacked
Unresolved(st, ys) == {m \in Msgs : (\E j \in DOMAIN ys : ys[j] = m) /\ st[m] = NONE}

RECURSIVE CallAll(_, _, _)
\* one successful adapter call `op` for each message of `ms`, lowest first
CallAll(op, ms, lg) ==
    IF ms = {} THEN lg
    ELSE LET m == CHOOSE x \in ms : \A y \in ms : x <= y
         IN  CallAll(op, ms \ {m}, Append(lg, Call(op, m, TRUE)))

\* faulty variant: a clean exit acks what the user left unresolved
open_sub_manual_acking_exit_acks(st, lg, ys, exc) ==
    IF exc = "none"
    THEN Result([m \in Msgs |-> IF m \in Unresolved(st, ys) THEN ACKED ELSE st[m]],
                Append(CallAll("ack_message", Unresolved(st, ys), lg),
                       Call("close", NoMsg, TRUE)),
                NoExc)
    ELSE Result(st, Append(lg, Call("close", NoMsg, TRUE)), Exc(exc, "none"))

\* faulty variant: an exception exit nacks what the user left unresolved
open_sub_manual_acking_exit_nacks(st, lg, ys, exc) ==
    IF exc = "none"
    THEN Result(st, Append(lg, Call("close", NoMsg, TRUE)), NoExc)
    ELSE Result([m \in Msgs |-> IF m \in Unresolved(st, ys) THEN NACKED ELSE st[m]],
                Append(CallAll("reject_message", Unresolved(st, ys), lg),
                       Call("close", NoMsg, TRUE)),
                Exc(exc, "none"))

\* open_sub_manual_acking after its yield: the finally clause closes the
\* Consumer, whatever the yielded messages `ys` are in, and the exception
\* that left the block (if any) propagates
open_sub_manual_acking_exit(st, lg, ys, exc) ==
    Result(st, Append(lg, Call("close", NoMsg, TRUE)),
           IF exc = "none" THEN NoExc ELSE Exc(exc, "none"))

InitManual ==
    /\ MsgIdle
    /\ RegistryIdle
    /\ ConnIdle
    /\ BrokerIdle
    /\ RetryIdle
    /\ ack_pending = 0
    /\ ack_pending_limit \in 1 .. MaxManual
    /\ except_errors = TRUE
    /\ backlog \in 0 .. MaxMsgs
    /\ ack_status = [m \in Msgs |-> NONE]
    /\ log = <<>>
    /\ raised = NoExc
    /\ last_op = NoOp
    /\ ctx = "new"
    /\ gen = [st |-> "unstarted", pos |-> 0]
    /\ sub_msg = NoMsg
    /\ loop = "none"
    /\ pending_exc = "none"
    /\ yielded = <<>>
    /\ nacked_by_user = {}
    /\ round = 0

ManualFrame == UNCHANGED <<except_errors, gen, sub_msg, nacked_by_user, backlog,
                           round, ack_pending_limit, RetryVars, BrokerVars,
                           MsgVars, RegistryVars,
                   ConnVars>>

\* `async with q.open_sub_manual_acking(ack_pending_limit) as sub`
OpenSubManualEnter ==
    /\ ctx = "new"
    /\ ctx' = "entered"
    /\ last_op' = Op("open_sub_manual_acking", NoMsg, NONE)
    /\ UNCHANGED <<ack_status, log, raised, loop, pending_exc, yielded, ack_pending>>
    /\ ManualFrame

\* `async for msg in sub.iter_messages()`: the next message is asked for
IterMessages ==
    /\ ctx = "entered"
    /\ pending_exc = "none"
    /\ loop # "exhausted"
    /\ \E got \in (IF Len(yielded) < backlog THEN {"msg"} ELSE {"none"})
                     \cup (IF FALSE \in Outcomes(log) THEN {"error"} ELSE {}) :
        LET r == iter_messages(log, Len(yielded), ack_pending, ack_pending_limit, got)
        IN  /\ log' = r.log
            /\ raised' = r.raised
            /\ pending_exc' = r.raised.exc
            /\ loop' = r.loop
            /\ yielded' = IF r.out = NoMsg THEN yielded ELSE Append(yielded, r.out)
            /\ ack_pending' = IF r.out = NoMsg THEN ack_pending ELSE ack_pending + 1
    /\ last_op' = Op("iter_messages", NoMsg, NONE)
    /\ UNCHANGED <<ack_status, ctx>>
    /\ ManualFrame

\* `await sub.ack(msg)` for a message the iteration yielded
ManualResourceAck ==
    /\ ctx = "entered"
    /\ pending_exc = "none"
    /\ \E j \in DOMAIN yielded, ok \in Outcomes(log) :
        LET m == yielded[j]
            r == _safe_ack(ack_status, log, m, ok)
        IN  /\ ack_status' = r.ack_status
            /\ log' = r.log
            /\ raised' = r.raised
            /\ pending_exc' = r.raised.exc
            /\ ack_pending' = ack_pending_after(ack_pending, ack_status[m],
                                                r.ack_status[m])
            /\ last_op' = Op("ack", m, ack_status[m])
    /\ UNCHANGED <<ctx, loop, yielded>>
    /\ ManualFrame

\* `await sub.nack(msg)` for a message the iteration yielded
ManualResourceNack ==
    /\ ctx = "entered"
    /\ pending_exc = "none"
    /\ \E j \in DOMAIN yielded, ok \in Outcomes(log) :
        LET m == yielded[j]
            r == _safe_nack(ack_status, log, m, ok)
        IN  /\ ack_status' = r.ack_status
            /\ log' = r.log
            /\ raised' = r.raised
            /\ pending_exc' = r.raised.exc
            /\ last_op' = Op("nack", m, ack_status[m])
    /\ UNCHANGED <<ctx, loop, yielded, ack_pending>>
    /\ ManualFrame

\* the block ends, normally or by an exception of the library or of the user
OpenSubManualExit ==
    /\ ctx = "entered"
    /\ \E exc \in (IF pending_exc = "none" THEN {"none", "UserError"}
                                          ELSE {pending_exc}) :
        LET r == open_sub_manual_acking_exit(ack_status, log, yielded, exc)
        IN  /\ ack_status' = r.ack_status
            /\ log' = r.log
            /\ raised' = r.raised
            /\ pending_exc' = exc
    /\ ctx' = "exited"
    /\ last_op' = Op("exit_manual", NoMsg, NONE)
    /\ UNCHANGED <<loop, yielded, ack_pending>>
    /\ ManualFrame

\* default `retries` of the adapter's calls
RETRIES == 2

\* faulty variant: the closed channel's error is retried, the Consumer is
\* reconnected and the request goes through
ack_message_after_close_reconnects(n) ==
    LET a == attempt_retry_fatal(n, 0, <<>>, "ChannelError")
    IN  IF a.pc # "reconnect" THEN a
        ELSE attempt(n, 1, reconnect(n, 1, 0, a.log, TRUE, TRUE).log, "ok")

\* RabbitMQSub.ack_message / reject_message on a Consumer whose close() has
\* run: self.channel is still set, so auto_retry_call is entered, and the
\* closed channel refuses basic_ack / basic_nack with a channel error
ack_message_after_close(n) == attempt(n, 0, <<>>, "ChannelError")

\* `await sub.ack(msg)` after the with-block: the lambda still holds the
\* closed Consumer
AckAfterClose ==
    /\ ctx = "exited"
    /\ FALSE \in Outcomes(log)
    /\ \E j \in DOMAIN yielded :
        LET m == yielded[j]
            a == ack_message_after_close(RETRIES)
            r == _safe_ack(ack_status, log, m, a.raised = NoExc)
        IN  /\ ack_status' = r.ack_status
            /\ log' = r.log
            /\ raised' = r.raised
            /\ retry_log' = IF ack_status[m] = NONE THEN a.log ELSE <<>>
            /\ last_op' = Op("ack_closed", m, ack_status[m])
    /\ UNCHANGED <<ctx, loop, yielded, ack_pending, pending_exc, retries,
                   retry_delay, retry_i, retry_pc>>
    /\ UNCHANGED <<except_errors, gen, sub_msg, nacked_by_user, backlog,
                   round, ack_pending_limit, BrokerVars, MsgVars,
                   RegistryVars,
                   ConnVars>>

\* `await sub.nack(msg)` after the with-block
NackAfterClose ==
    /\ ctx = "exited"
    /\ FALSE \in Outcomes(log)
    /\ \E j \in DOMAIN yielded :
        LET m == yielded[j]
            a == ack_message_after_close(RETRIES)
            r == _safe_nack(ack_status, log, m, a.raised = NoExc)
        IN  /\ ack_status' = r.ack_status
            /\ log' = r.log
            /\ raised' = r.raised
            /\ retry_log' = IF ack_status[m] = NONE THEN a.log ELSE <<>>
            /\ last_op' = Op("nack_closed", m, ack_status[m])
    /\ UNCHANGED <<ctx, loop, yielded, ack_pending, pending_exc, retries,
                   retry_delay, retry_i, retry_pc>>
    /\ UNCHANGED <<except_errors, gen, sub_msg, nacked_by_user, backlog,
                   round, ack_pending_limit, BrokerVars, MsgVars,
                   RegistryVars,
                   ConnVars>>

NextManual ==
    \/ OpenSubManualEnter \/ IterMessages \/ ManualResourceAck
    \/ ManualResourceNack \/ OpenSubManualExit
    \/ AckAfterClose \/ NackAfterClose

SpecManual == InitManual /\ [][NextManual]_vars

\* the messages iter_messages() yielded that are not acked
NotAcked == {j \in DOMAIN yielded : ack_status[yielded[j]] # ACKED}
TooManyPending == Exc("TooManyMessagesPendingAckException", "none")

ManualCleanExitLeavesPending ==
    [][(last_op'.op = "exit_manual" /\ pending_exc' = "none") =>
          /\ \A m \in Unresolved(ack_status, yielded) : ack_status'[m] = NONE
          /\ CallsOf(log', "ack_message") = CallsOf(log, "ack_message")
          /\ log'[Len(log')].op = "close"
          /\ raised' = NoExc
          /\ ctx' = "exited"]_vars

\* a clean exit with one message nacked and one still unresolved
ManualCleanExitWitness ==
    /\ last_op.op = "exit_manual"
    /\ pending_exc = "none"
    /\ raised = NoExc
    /\ yielded = <<0, 1>>
    /\ ack_status[0] = NACKED /\ ack_status[1] = NONE
    /\ AckCalls = <<>>
    /\ log[Len(log)].op = "close"

\* ----------------------------------------------------------------------
\* C21 as claimed: every ack or nack requested after the context closed its
\* Consumer fails with an error, changes no ack_status and reconnects
\* nothing.
RequestAfterCloseFails ==
    [][last_op'.op \in {"ack_closed", "nack_closed"} =>
          /\ raised' # NoExc
          /\ ack_status' = ack_status
          /\ EvsOf(retry_log', "connect") = <<>>]_vars

\* C21, amended: after the close an ack or nack changes no ack_status and
\* reconnects nothing; it fails with an error -- after a single refused
\* adapter call for an unresolved message, without any adapter call for a
\* message resolved the other way -- except that the repeat of the request
\* that resolved the message returns silently.
RequestAfterCloseChangesNothing ==
    [][last_op'.op \in {"ack_closed", "nack_closed"} =>
          LET before == last_op'.prev
              same == IF last_op'.op = "ack_closed" THEN ACKED ELSE NACKED
          IN  /\ ack_status' = ack_status
              /\ EvsOf(retry_log', "connect") = <<>>
              /\ EvsOf(retry_log', "close") = <<>>
              /\ raised' = NoExc <=> before = same
              /\ before = NONE =>
                    /\ Len(log') = Len(log) + 1
                    /\ ~log'[Len(log')].ok
                    /\ Len(EvsOf(retry_log', "func")) = 1
              /\ before # NONE => log' = log]_vars

\* a message left unresolved by a clean exit was acked afterwards: the
\* request failed and the message is still unresolved
RequestAfterCloseWitness ==
    /\ last_op = Op("ack_closed", 0, NONE)
    /\ ack_status[0] = NONE
    /\ raised = Exc("AckException", "BrokerError")
    /\ log[Len(log)] = Call("ack_message", 0, FALSE)
    /\ log[Len(log) - 1].op = "close"
    /\ retry_log = <<Ev("factory", 0, "ok", 0), Ev("func", 0, "ChannelError", 0)>>

\* ----------------------------------------------------------------------
\* FairSub: the open_sub contexts of SpecSub on a queue whose messages were
\* published through open_pub, under the conditions of at-least-once
\* delivery: no adapter call fails (no fatal broker error), the user's
\* program keeps running, and contexts are opened until one of them -- here
\* the one numbered MaxRounds -- iterates to the end of the stream.

\* no adapter call of this step failed
NoBrokerError == Failed(log') = {}

\* the context numbered MaxRounds only iterates, and exits once exhausted
LastContextIterates ==
    round = MaxRounds =>
        \/ last_op'.op = "anext"
        \/ last_op'.op = "aexit" /\ loop = "exhausted" /\ pending_exc' = "none"

FairNext == NextSub /\ NoBrokerError /\ LastContextIterates

FairSub == InitSub /\ [][FairNext]_vars /\ WF_vars(FairNext)

\* message `i` is among those the current context has yielded
YieldedId(i) ==
    \E j \in DOMAIN yielded :
        yielded[j] + 1 \in DOMAIN broker /\ broker[yielded[j] + 1] = i
\* message `i` was the current message when the user raised in context `r`
RaisedAt(i, r) ==
    /\ ExitedOnUserError /\ round = r
    /\ sub_msg # NoMsg /\ broker[sub_msg + 1] = i

YieldsWhatGeneratorProduces ==
    LET produced == SelectSeq(CallsOf(log, "fetch"),
                              LAMBDA c : c.ok /\ c.msg # NoMsg)
    IN  /\ MsgsOf(produced) = yielded
        /\ \A j \in DOMAIN yielded : yielded[j] = j - 1
        /\ sub_msg # NoMsg => sub_msg = yielded[Len(yielded)]

\* three messages were yielded and the stream ended
YieldsAllWitness ==
    /\ yielded = <<0, 1, 2>>
    /\ loop = "exhausted"
    /\ ctx = "entered"

\* ----------------------------------------------------------------------
\* C24: in an open_sub context every nack sent to the adapter, by
\* nack_current() or by the exception exit, is for the most recently
\* yielded message, never for an earlier one.
OnlyCurrentMessageNacked ==
    [][\A j \in (Len(log) + 1) .. Len(log') :
          log'[j].op = "reject_message" =>
              /\ yielded # <<>>
              /\ log'[j].msg = yielded[Len(yielded)]
              /\ yielded' = yielded]_vars

\* nack_current() on the second message, with the first one acked
OnlyCurrentNackedWitness ==
    /\ last_op.op = "nack_current"
    /\ yielded = <<0, 1>>
    /\ ack_status[0] = ACKED /\ ack_status[1] = NACKED
    /\ MsgsOf(RejectCalls) = <<1>>

\* ----------------------------------------------------------------------
\* C25: when a cancellation arrives in the with-block of an open_sub whose
\* iteration has yielded a message and has not ended, and no adapter call
\* fails, the context leaves no current message unresolved, closes the
\* Consumer, and the caller gets the cancellation, whatever except_errors.
CancelNacksClosesPropagates ==
    ( /\ last_op.op = "aexit" /\ ctx = "exited"
      /\ pending_exc = "CancelledError"
      /\ yielded # <<>> /\ loop = "iterating"
      /\ Failed(log) = {} )
    => /\ sub_msg # NoMsg => ack_status[sub_msg] # NONE
       /\ log[Len(log)].op = "close"
       /\ raised = Exc("CancelledError", "none")

\* ------------------------------------------- Message payload (de)serialization
\* longest list among the user values followed through serialization
MaxItems == 2

Atoms == 0 .. 1

\* a user value: an int, a str, None, a list of ints or a small dict
Value(kind, atom, items) == [kind |-> kind, atom |-> atom, items |-> items]

NoneValue == Value("none", 0, <<>>)

ItemSeqs == UNION {[1 .. n -> Atoms] : n \in 0 .. MaxItems}

DataValues ==
    {Value(k, a, <<>>) : k \in {"int", "str"}, a \in Atoms}
        \cup {Value("list", 0, s) : s \in ItemSeqs}

\* headers: Optional[Dict[str, Any]]
HeaderValues == {NoneValue} \cup {Value("dict", 0, <<a>>) : a \in Atoms}

\* pickle of one value: a tag, then the atom or the length and the items
dumps_value(v) ==
    IF v.kind = "none" THEN <<"N">>
    ELSE IF v.kind = "int" THEN <<"I", v.atom>>
    ELSE IF v.kind = "str" THEN <<"S", v.atom>>
    ELSE <<(IF v.kind = "list" THEN "L" ELSE "M"), Len(v.items)>> \o v.items

\* the value pickled at position i of p, and the position after it
loads_value(p, i) ==
    IF p[i] = "N" THEN [v |-> NoneValue, next |-> i + 1]
    ELSE IF p[i] = "I" THEN [v |-> Value("int", p[i + 1], <<>>), next |-> i + 2]
    ELSE IF p[i] = "S" THEN [v |-> Value("str", p[i + 1], <<>>), next |-> i + 2]
    ELSE [v |-> Value((IF p[i] = "L" THEN "list" ELSE "dict"), 0,
                      SubSeq(p, i + 2, i + 1 + p[i + 1])),
          next |-> i + 2 + p[i + 1]]

\* pickle.dumps of the two-key dict {"headers": ..., "data": ...}
serialize_data(data, headers) ==
    <<"D", "headers">> \o dumps_value(headers) \o <<"data">> \o dumps_value(data)

\* pickle.loads of a payload: the dict, key by key in the pickled order
pickle_loads(payload) ==
    LET first  == loads_value(payload, 3)
        second == loads_value(payload, first.next + 1)
    IN  (payload[2] :> first.v) @@ (payload[first.next] :> second.v)

deserialize_data_headers(payload) == pickle_loads(payload)["headers"]

deserialize_data(payload) == pickle_loads(payload)["data"]

Message(msg_id, payload) == [msg_id |-> msg_id, payload |-> payload]

\* Message.__eq__ for two Messages (a Message is truthy and an instance)
Message_eq(self, other) ==
    deserialize_data(self.payload) = deserialize_data(other.payload)

InitMsg ==
    /\ RegistryIdle
    /\ ConnIdle
    /\ RetryIdle
    /\ ManualIdle
    /\ BrokerIdle
    /\ \E d \in DataValues \X DataValues, h \in HeaderValues \X HeaderValues,
          i \in Atoms \X Atoms :
           wire = [pc |-> "user", data |-> d, headers |-> h, msg_id |-> i,
                   payload |-> <<>>, msgs |-> <<>>, out |-> <<>>, eq |-> FALSE]
    /\ except_errors = TRUE
    /\ backlog = 0
    /\ ack_status = [m \in Msgs |-> NONE]
    /\ log = <<>>
    /\ raised = NoExc
    /\ last_op = NoOp
    /\ ctx = "new"
    /\ gen = [st |-> "unstarted", pos |-> 0]
    /\ sub_msg = NoMsg
    /\ loop = "none"
    /\ pending_exc = "none"
    /\ yielded = <<>>
    /\ nacked_by_user = {}
    /\ round = 0

MsgFrame == UNCHANGED <<except_errors, ack_status, log, raised, last_op, ctx,
                        gen, sub_msg, loop, pending_exc, yielded, nacked_by_user,
                        backlog, round, RetryVars, ManualVars, BrokerVars,
                        RegistryVars,
                   ConnVars>>

\* the sender serializes both values
SerializeData ==
    /\ wire.pc = "user"
    /\ wire' = [wire EXCEPT !.pc = "serialized",
                  !.payload = [k \in 1 .. 2 |->
                                 serialize_data(wire.data[k], wire.headers[k])]]
    /\ MsgFrame

\* the receiver wraps each payload in a Message with the broker's id
NewMessage ==
    /\ wire.pc = "serialized"
    /\ wire' = [wire EXCEPT !.pc = "message",
                  !.msgs = [k \in 1 .. 2 |->
                              Message(wire.msg_id[k], wire.payload[k])]]
    /\ MsgFrame

\* the receiver reads the data back and compares the two Messages
DeserializeData ==
    /\ wire.pc = "message"
    /\ wire' = [wire EXCEPT !.pc = "received",
                  !.out = [k \in 1 .. 2 |-> deserialize_data(wire.msgs[k].payload)],
                  !.eq = Message_eq(wire.msgs[1], wire.msgs[2])]
    /\ MsgFrame

NextMsg == SerializeData \/ NewMessage \/ DeserializeData

SpecMsg == InitMsg /\ [][NextMsg]_vars

Name(word, casing) == [word |-> word, casing |-> casing]

\* str.lower()
lower(name) == Name(name.word, "lower")

KnownBackends == {"pulsar", "gcp", "nats", "rabbitmq"}

BackendNames ==
    {Name(w, c) : w \in KnownBackends \cup {"foo", "bar"},
                  c \in {"lower", "upper", "mixed"}}

Resolved(kind, arg, cause) == [kind |-> kind, arg |-> arg, cause |-> cause]

\* the import of the matching adapter module, then the except clause
import_backend(backend_name, word, installed) ==
    IF word \in installed
    THEN Resolved("Backend", Name(word, "lower"), "none")
    ELSE Resolved("Install", lower(backend_name), "ModuleNotFoundError")

get_backend_case_sensitive(backend_name, installed) ==
    IF backend_name \in {Name(w, "lower") : w \in KnownBackends}
    THEN import_backend(backend_name, backend_name.word, installed)
    ELSE Resolved("Unknown backend", backend_name, "none")

get_backend(backend_name, installed) ==
    IF lower(backend_name) = Name("pulsar", "lower")
    THEN import_backend(backend_name, "pulsar", installed)
    ELSE IF lower(backend_name) = Name("gcp", "lower")
    THEN import_backend(backend_name, "gcp", installed)
    ELSE IF lower(backend_name) = Name("nats", "lower")
    THEN import_backend(backend_name, "nats", installed)
    ELSE IF lower(backend_name) = Name("rabbitmq", "lower")
    THEN import_backend(backend_name, "rabbitmq", installed)
    ELSE Resolved("Unknown backend", backend_name, "none")

InitRegistry ==
    /\ ConnIdle
    /\ MsgIdle
    /\ RetryIdle
    /\ ManualIdle
    /\ BrokerIdle
    /\ \E n \in BackendNames, inst \in SUBSET KnownBackends :
           resolve = [pc |-> "call", name |-> n, installed |-> inst,
                      result |-> Resolved("none", n, "none")]
    /\ except_errors = TRUE
    /\ backlog = 0
    /\ ack_status = [m \in Msgs |-> NONE]
    /\ log = <<>>
    /\ raised = NoExc
    /\ last_op = NoOp
    /\ ctx = "new"
    /\ gen = [st |-> "unstarted", pos |-> 0]
    /\ sub_msg = NoMsg
    /\ loop = "none"
    /\ pending_exc = "none"
    /\ yielded = <<>>
    /\ nacked_by_user = {}
    /\ round = 0

GetBackend ==
    /\ resolve.pc = "call"
    /\ resolve' = [resolve EXCEPT !.pc = "done",
                     !.result = get_backend(resolve.name, resolve.installed)]
    /\ UNCHANGED <<except_errors, ack_status, log, raised, last_op, ctx, gen,
                   sub_msg, loop, pending_exc, yielded, nacked_by_user,
                   backlog, round, RetryVars, ManualVars, BrokerVars, MsgVars,
                   ConnVars>>

NextRegistry == GetBackend

SpecRegistry == InitRegistry /\ [][NextRegistry]_vars

\* C27: names are resolved whatever their case; a name of no known
\* backend gives the "Unknown backend" error, a known name whose adapter
\* library is missing gives the "Install" error naming the extra, and
\* neither error is ever given in the other's case.
RegistryErrorsDistinct ==
    resolve.pc = "done" =>
        LET known == resolve.name.word \in KnownBackends
            there == resolve.name.word \in resolve.installed
            r     == resolve.result
        IN  /\ (r.kind = "Unknown backend") <=> ~known
            /\ (r.kind = "Install") <=> (known /\ ~there)
            /\ (r.kind = "Backend") <=> (known /\ there)
            /\ r.kind = "Install" =>
                   /\ r.arg = Name(resolve.name.word, "lower")
                   /\ r.cause = "ModuleNotFoundError"
            /\ r.kind = "Backend" => r.arg.word = resolve.name.word

\* a known name written in capitals whose library is missing
RegistryErrorsDistinctWitness ==
    /\ resolve.pc = "done"
    /\ resolve.name = Name("rabbitmq", "upper")
    /\ "rabbitmq" \notin resolve.installed
    /\ resolve.result.kind = "Install"

\* the last fetch before position j of the log that delivered a message
PreviousFetch(j) ==
    LET before == {i \in 1 .. j - 1 : log[i].op = "fetch" /\ log[i].msg # NoMsg}
    IN  IF before = {} THEN 0 ELSE CHOOSE i \in before : \A k \in before : k <= i

\* C28: within open_sub, each fetch of a next message comes after the ack
\* of the message delivered before it, unless that message was nacked.
AckPrecedesNextFetch ==
    ctx \in {"entered", "exited"} =>
        \A j \in DOMAIN log :
            (log[j].op = "fetch" /\ PreviousFetch(j) # 0) =>
                LET i == PreviousFetch(j)
                IN  \E k \in i + 1 .. j - 1 :
                        /\ log[k].msg = log[i].msg
                        /\ log[k].ok
                        /\ \/ log[k].op = "ack_message"
                           \/ log[k].op = "reject_message"

\* two messages were fetched and the first was acked in between
AckPrecedesNextFetchWitness ==
    /\ ctx = "entered"
    /\ Len(log) >= 3
    /\ log[1] = Call("fetch", 0, TRUE)
    /\ log[2] = Call("ack_message", 0, TRUE)
    /\ log[3] = Call("fetch", 1, TRUE)

\* the ack and nack requests made of the adapter, in order
AckNackCalls(lg) ==
    SelectSeq(lg, LAMBDA c : c.op \in {"ack_message", "reject_message"})

\* C29: once __anext__ signalled the end of the stream there is no current
\* message: whatever follows in the context (nack_current, a further next,
\* the exit with or without a user exception) makes no ack and no nack
\* request and changes no message's status, and nack_current does nothing.
EndOfStreamClearsCurrent ==
    [][(ctx = "entered" /\ loop = "exhausted") =>
          /\ sub_msg = NoMsg
          /\ AckNackCalls(log') = AckNackCalls(log)
          /\ ack_status' = ack_status
          /\ last_op'.op = "nack_current" =>
                 /\ log' = log
                 /\ raised' = NoExc
                 /\ nacked_by_user' = nacked_by_user]_vars

\* every message was yielded, then the user raised after the loop
EndOfStreamClearsCurrentWitness ==
    /\ ctx = "exited"
    /\ loop = "exhausted"
    /\ last_op.op = "aexit"
    /\ pending_exc = "UserError"
    /\ backlog > 0
    /\ Len(yielded) = backlog

\* the five calls that precede the factory() call at position j of the log
\* are a failed retriable attempt, close, sleep and a connect that returned
ReconnectedBefore(j) ==
    /\ j > 5
    /\ LET i == retry_log[j].i
       IN  /\ retry_log[j - 5] = Ev("factory", i - 1, "ok", 0)
           /\ retry_log[j - 4].ev = "func" /\ retry_log[j - 4].i = i - 1
           /\ retry_log[j - 4].out # "ok"
           /\ ~nonretriable_conditions(retry_log[j - 4].out)
           /\ retry_log[j - 3].ev = "close" /\ retry_log[j - 3].i = i - 1
           /\ retry_log[j - 2].ev = "sleep" /\ retry_log[j - 2].secs >= 1
           /\ retry_log[j - 1] = Ev("connect", i - 1, "ok", 0)

\* C30: between a failed retriable attempt and the next one the harness
\* closes (whatever close raises), sleeps at least one second and connects;
\* the next attempt starts only after connect returned, and every attempt
\* calls the operation factory() gave it, factory being called once per
\* attempt.
ReconnectBetweenAttempts ==
    /\ \A j \in DOMAIN retry_log :
           retry_log[j].ev = "func" =>
               /\ j > 1
               /\ retry_log[j - 1] = Ev("factory", retry_log[j].i, "ok", 0)
               /\ retry_log[j].i > 0 => ReconnectedBefore(j - 1)
    /\ \A j \in DOMAIN retry_log :
           retry_log[j].ev = "factory" =>
               \/ j = Len(retry_log) /\ retry_pc = "attempt"
               \/ j < Len(retry_log) /\ retry_log[j + 1].ev = "func"
    /\ \A j \in DOMAIN retry_log :
           retry_log[j].ev = "sleep" =>
               /\ retry_log[j].secs >= 1
               /\ j > 1 /\ retry_log[j - 1].ev = "close"
               /\ j < Len(retry_log) /\ retry_log[j + 1].ev = "connect"
    /\ retry_pc = "attempt" /\ retry_i > 0 =>
           retry_log[Len(retry_log)] = Ev("connect", retry_i - 1, "ok", 0)

\* close raised, the caller asked for no delay, and the second attempt ran
ReconnectBetweenAttemptsWitness ==
    /\ retry_delay = 0
    /\ Len(retry_log) >= 7
    /\ retry_log[3] = Ev("close", 0, "CloseError", 0)
    /\ retry_log[4] = Ev("sleep", 0, "ok", 1)
    /\ retry_log[5] = Ev("connect", 0, "ok", 0)
    /\ retry_log[6] = Ev("factory", 1, "ok", 0)
    /\ retry_log[7].ev = "func"

\* the adapter calls made for message m
CallsFor(op, m) == SelectSeq(log, LAMBDA c : c.op = op /\ c.msg = m)

\* nack_current() was called on m and its reject_message returned
UserNacked(m) ==
    /\ m \in nacked_by_user
    /\ CallsFor("reject_message", m) # <<>>
    /\ CallsFor("reject_message", m)[1].ok

\* C31: a message the user nacked with nack_current() is never acked by
\* the context afterwards, neither on the following next nor at the exit;
\* the adapter is asked to reject it exactly once; and the messages that
\* were not nacked are acked as usual.
NackedByUserNeverAcked ==
    ctx \in {"entered", "exited"} =>
        /\ \A m \in Msgs :
               UserNacked(m) =>
                   /\ ack_status[m] = NACKED
                   /\ CallsFor("ack_message", m) = <<>>
                   /\ Len(CallsFor("reject_message", m)) = 1
                   /\ (last_op.op = "anext" /\ last_op.msg = m) =>
                          raised.exc # "AckException"
        /\ ExitedGood =>
               \A i \in DOMAIN yielded :
                   yielded[i] \notin nacked_by_user =>
                       CallsFor("ack_message", yielded[i])
                           = <<Call("ack_message", yielded[i], TRUE)>>

\* the first message was nacked, the second acked by the following next,
\* and the context has exited
NackedByUserNeverAckedWitness ==
    /\ ExitedGood
    /\ UserNacked(0)
    /\ Len(yielded) >= 3
    /\ 1 \notin nacked_by_user
    /\ ack_status[1] = ACKED

\* ======================================================================
\* SpecGen: RabbitMQSub.get_message and RabbitMQSub.message_generator driven
\* directly (next, throw, close), without a Queue-level context; `log` is
\* what the adapter asks of the broker connection, `except_errors` stands
\* for propagate_error, `yielded` holds every yielded value (NoMsg for None)

\* message_generator closed by aclose() or garbage collection: GeneratorExit
\* is raised at the yield, caught by `except GeneratorExit`, and the finally
\* clause cancels the channel; a generator that never ran has nothing to undo
message_generator_aclose(g) ==
    IF g.st \in {"at_yield", "at_none"}
    THEN GenResult([g EXCEPT !.st = "finished"], NoMsg, "none",
                   <<Call("cancel", NoMsg, TRUE)>>)
    ELSE GenResult([g EXCEPT !.st = "finished"], NoMsg, "none", <<>>)

\* RabbitMQSub.get_message: the first item of _iter_messages, None included
get_message(pos, got, k) == _iter_messages(pos, got, k)

\* what a receive may do now: a message only if the broker holds one, and
\* failures only while the bounds on failures and retries allow them
Receives ==
    {r \in [got : {"msg", "idle", "fail"}, k : 0 .. MaxFail] :
        /\ r.got = "msg" => gen.pos < backlog
        /\ r.k <= max(retries, 0)
        /\ Cardinality(Failed(log)) + r.k + (IF r.got = "fail" THEN 1 ELSE 0)
               <= MaxFail}

InitGen ==
    /\ MsgIdle
    /\ RegistryIdle
    /\ ConnIdle
    /\ BrokerIdle
    /\ ManualIdle
    /\ retries \in 0 .. MaxRetries
    /\ retry_delay = 0 /\ retry_i = 0 /\ retry_pc = "idle" /\ retry_log = <<>>
    /\ except_errors \in BOOLEAN
    /\ backlog \in 0 .. MaxMsgs
    /\ ack_status = [m \in Msgs |-> NONE]
    /\ log = <<>>
    /\ raised = NoExc
    /\ last_op = NoOp
    /\ ctx = "new"
    /\ gen = [st |-> "unstarted", pos |-> 0]
    /\ sub_msg = NoMsg
    /\ loop = "none"
    /\ pending_exc = "none"
    /\ yielded = <<>>
    /\ nacked_by_user = {}
    /\ round = 0

GenFrame == UNCHANGED <<except_errors, ack_status, ctx, loop,
                        nacked_by_user, backlog, round, RetryVars, ManualVars,
                        BrokerVars, MsgVars, RegistryVars,
                   ConnVars>>

\* await sub.get_message() before any generator was started
GetMessage ==
    /\ gen.st = "unstarted"
    /\ last_op.op \in {"none", "get_message"}
    /\ raised = NoExc
    /\ last_op.op = "get_message" => last_op.msg # NoMsg
    /\ \E r \in Receives :
        LET f == get_message(gen.pos, r.got, r.k)
        IN  /\ log' = log \o f.calls
            /\ raised' = Exc(f.exc, "none")
            /\ sub_msg' = f.out
            /\ gen' = [gen EXCEPT !.pos = IF f.out # NoMsg THEN @ + 1 ELSE @]
            /\ last_op' = Op("get_message", f.out, r.got)
    /\ UNCHANGED <<yielded, pending_exc>>
    /\ GenFrame

\* await gen.__anext__()
GenNext ==
    /\ raised.exc \in {"none", "StopAsyncIteration"}
    /\ \E r \in Receives :
        LET t == message_generator_resume(gen, r.got, r.k)
        IN  /\ log' = log \o t.calls
            /\ gen' = t.gen
            /\ raised' = Exc(t.exc, "none")
            /\ sub_msg' = t.out
            /\ yielded' = IF t.exc = "none" THEN Append(yielded, t.out) ELSE yielded
            /\ last_op' = Op("next", t.out, IF gen.st = "finished" THEN "finished"
                                            ELSE r.got)
    /\ UNCHANGED pending_exc
    /\ GenFrame

\* await gen.athrow(exc): the consumer hands an exception to the generator
GenThrow ==
    /\ raised.exc \in {"none", "StopAsyncIteration"}
    /\ \E exc \in {"UserError", "CancelledError"} :
        LET t == message_generator_athrow(gen, except_errors, IsBaseException(exc))
        IN  /\ log' = log \o t.calls
            /\ gen' = t.gen
            /\ raised' = IF t.exc = "thrown" THEN Exc(exc, "none") ELSE NoExc
            /\ sub_msg' = NoMsg
            /\ yielded' = IF gen.st = "at_yield" /\ t.exc = "none"
                          THEN Append(yielded, NoMsg) ELSE yielded
            /\ last_op' = Op("throw", NoMsg, gen.st)
            /\ pending_exc' = exc
    /\ GenFrame

\* await gen.aclose(), as a consumer does that leaves its loop with break
GenClose ==
    /\ gen.st # "finished"
    /\ LET t == message_generator_aclose(gen)
       IN  /\ log' = log \o t.calls
           /\ gen' = t.gen
    /\ raised' = NoExc
    /\ sub_msg' = NoMsg
    /\ last_op' = Op("close", NoMsg, gen.st)
    /\ UNCHANGED <<yielded, pending_exc>>
    /\ GenFrame

NextGen == GetMessage \/ GenNext \/ GenThrow \/ GenClose

SpecGen == InitGen /\ [][NextGen]_vars

\* C32: message_generator asks the broker for no ack and no nack, and it
\* does not close the connection -- while it iterates, when it is closed
\* on a break, at the end of the stream, or when an exception is thrown
\* into it. The only close() it causes is the one of a reconnect cycle,
\* right after a receive that failed and is retried.
GeneratorNeverAcksNacksCloses ==
    \A j \in DOMAIN log :
        /\ log[j].op \notin {"ack_message", "reject_message"}
        /\ log[j].op = "close" =>
               /\ j > 1 /\ log[j - 1] = Call("fetch", NoMsg, FALSE)
               /\ j < Len(log) /\ log[j + 1].op = "connect"

\* two messages were yielded, then an exception thrown into the generator
\* ended it
GeneratorNeverAcksNacksClosesWitness ==
    /\ last_op = Op("throw", NoMsg, "at_yield")
    /\ raised = Exc("UserError", "none")
    /\ gen = [st |-> "finished", pos |-> 2]
    /\ log = <<Call("fetch", 0, TRUE), Call("fetch", 1, TRUE),
               Call("cancel", NoMsg, TRUE)>>

\* the messages among the yielded values
YieldedMsgs == SelectSeq(yielded, LAMBDA v : v # NoMsg)

\* C33: an exception thrown into message_generator while it is suspended at
\* a yielded message is re-raised, and ends the generator, when
\* propagate_error; otherwise the generator yields None, once, and the
\* next request goes on with the next message of the broker: the messages
\* yielded are consecutive, none skipped and none repeated.
ThrowIsPropagatedOrSuppressed ==
    /\ (last_op = Op("throw", NoMsg, "at_yield") /\ pending_exc = "UserError") =>
           IF except_errors
           THEN raised = Exc("UserError", "none") /\ gen.st = "finished"
           ELSE /\ raised = NoExc
                /\ gen.st = "at_none"
                /\ yielded # <<>> /\ yielded[Len(yielded)] = NoMsg
    /\ \A i \in DOMAIN yielded :
           yielded[i] = NoMsg => i > 1 /\ yielded[i - 1] # NoMsg
    /\ \A i \in DOMAIN YieldedMsgs :
           i > 1 => YieldedMsgs[i] = YieldedMsgs[i - 1] + 1

\* a suppressed exception after the first message, then the second message
ThrowIsPropagatedOrSuppressedWitness ==
    /\ ~except_errors
    /\ Len(yielded) >= 3
    /\ yielded[1] = 0 /\ yielded[2] = NoMsg /\ yielded[3] = 1

\* a receive that returned nothing within the timeout
IdleFetch == Call("fetch", NoMsg, TRUE)

\* C34: a receive that times out is not an error: get_message returns None,
\* and message_generator ends with end-of-stream at the first receive that
\* returns no message, asking the broker for nothing more.
IdleReceiveEndsStream ==
    /\ (last_op.op = "get_message" /\ last_op.prev = "idle") =>
           raised = NoExc /\ sub_msg = NoMsg
    /\ (last_op.op = "next" /\ last_op.prev = "idle") =>
           /\ raised = Exc("StopAsyncIteration", "none")
           /\ gen.st = "finished"
           /\ Len(log) >= 2
           /\ log[Len(log) - 1] = IdleFetch
           /\ log[Len(log)] = Call("cancel", NoMsg, TRUE)
    /\ \A j \in DOMAIN log :
           (log[j] = IdleFetch /\ j < Len(log) /\ log[j + 1].op = "cancel") =>
               /\ gen.st = "finished"
               /\ \A n \in j + 1 .. Len(log) : log[n].op # "fetch"

\* the broker still holds a message, but none arrived in time for the
\* second receive
IdleReceiveEndsStreamWitness ==
    /\ last_op.op = "next" /\ last_op.prev = "idle"
    /\ yielded = <<0>>
    /\ backlog > 1
    /\ gen.st = "finished"

\* ======================================================================
\* SpecRabbit: one RabbitMQ instance -- its constructor (_parse_url and
\* _get_credentials), connect() and close(); `log` holds the calls made of
\* pika, "None" stands for Python's None

\* how many times connect() is called on the instance
MaxConnects == 2

truthy(x) == x \notin {"None", ""}

Usernames == {"None", "", "user"}
Passwords == {"None", "", "pw"}
Tokens == {"", "tok"}
Hosts == {"", "host"}

Creds(user, pass) == [user |-> user, pass |-> pass]
NoCreds == Creds("None", "None")

CredResult(exc, creds) == [exc |-> exc, creds |-> creds]

\* _parse_url: the host is mandatory
_parse_url(host) == IF truthy(host) THEN "none" ELSE "RuntimeError"

\* _get_credentials: the token, when given, replaces the URL password;
\* user and password, password or token alone, user alone (an error), or
\* nothing (no credentials: the broker's default)
_get_credentials(username, password, auth_token) ==
    LET pw == IF truthy(auth_token) THEN auth_token ELSE password
    IN  IF truthy(username) /\ truthy(pw)
        THEN CredResult("none", Creds(username, pw))
        ELSE IF ~truthy(username) /\ truthy(pw)
        THEN CredResult("none", Creds("", pw))
        ELSE IF truthy(username) /\ ~truthy(pw)
        THEN CredResult("RuntimeError", NoCreds)
        ELSE CredResult("none", NoCreds)

\* AlreadyClosedException derives from ClosingFailedException
IsClosingFailed(exc) ==
    exc \in {"ClosingFailedException", "AlreadyClosedException"}

CloseResult(c, lg, e) == [conn |-> c, log |-> lg, raised |-> e]

\* faulty variant: a closed connection is closed once more
RabbitMQ_close_again(c, lg, ok, left) ==
    IF c.channel = "none" \/ c.connection = "none"
    THEN CloseResult(c, lg, Exc("ClosingFailedException", "none"))
    ELSE IF ok
    THEN CloseResult([c EXCEPT !.connection = "closed", !.channel = "closed"],
                     lg \o <<Call("channel.cancel", NoMsg, TRUE),
                             Call("connection.close", NoMsg, TRUE)>>, NoExc)
    ELSE CloseResult([c EXCEPT !.connection = left],
                     Append(lg, Call("connection.close", NoMsg, FALSE)),
                     Exc("ClosingFailedException", "BrokerError"))

\* RabbitMQ.close: `ok` is whether pika's cancel and close return, `left`
\* is the state a failed close leaves the connection in
RabbitMQ_close(c, lg, ok, left) ==
    IF c.channel = "none" \/ c.connection = "none"
    THEN CloseResult(c, lg, Exc("ClosingFailedException", "none"))
    ELSE IF c.connection = "closed"
    THEN CloseResult(c, lg, Exc("AlreadyClosedException", "none"))
    ELSE IF ok
    THEN CloseResult([c EXCEPT !.connection = "closed", !.channel = "closed"],
                     lg \o <<Call("channel.cancel", NoMsg, TRUE),
                             Call("connection.close", NoMsg, TRUE)>>, NoExc)
    ELSE CloseResult([c EXCEPT !.connection = left],
                     Append(lg, Call("connection.close", NoMsg, FALSE)),
                     Exc("ClosingFailedException", "BrokerError"))

\* RabbitMQ.connect: `out` is how far it gets -- no connection, a connection
\* but no channel, or both
RabbitMQ_connect(c, lg, out) ==
    IF out = "no_connection"
    THEN CloseResult(c, Append(lg, Call("BlockingConnection", NoMsg, FALSE)),
                     Exc("BrokerError", "none"))
    ELSE IF out = "no_channel"
    THEN CloseResult([c EXCEPT !.connection = "open"],
                     lg \o <<Call("BlockingConnection", NoMsg, TRUE),
                             Call("channel", NoMsg, FALSE)>>,
                     Exc("BrokerError", "none"))
    ELSE CloseResult([c EXCEPT !.connection = "open", !.channel = "open"],
                     lg \o <<Call("BlockingConnection", NoMsg, TRUE),
                             Call("channel", NoMsg, TRUE)>>, NoExc)

InitRabbit ==
    /\ MsgIdle
    /\ RegistryIdle
    /\ BrokerIdle
    /\ ManualIdle
    /\ RetryIdle
    /\ \E u \in Usernames, p \in Passwords, t \in Tokens, h \in Hosts :
           conn = [pc |-> "args", username |-> u, password |-> p,
                   auth_token |-> t, host |-> h, creds |-> NoCreds,
                   connection |-> "none", channel |-> "none", connects |-> 0]
    /\ except_errors = TRUE
    /\ backlog = 0
    /\ ack_status = [m \in Msgs |-> NONE]
    /\ log = <<>>
    /\ raised = NoExc
    /\ last_op = NoOp
    /\ ctx = "new"
    /\ gen = [st |-> "unstarted", pos |-> 0]
    /\ sub_msg = NoMsg
    /\ loop = "none"
    /\ pending_exc = "none"
    /\ yielded = <<>>
    /\ nacked_by_user = {}
    /\ round = 0

RabbitFrame == UNCHANGED <<except_errors, ack_status, ctx, gen, sub_msg, loop,
                           pending_exc, yielded, nacked_by_user, backlog, round,
                           RetryVars, ManualVars, BrokerVars, MsgVars,
                           RegistryVars>>

\* RabbitMQ.__init__
RabbitNew ==
    /\ conn.pc = "args"
    /\ LET url == _parse_url(conn.host)
           cr  == _get_credentials(conn.username, conn.password, conn.auth_token)
       IN  IF url # "none"
           THEN /\ conn' = [conn EXCEPT !.pc = "failed"]
                /\ raised' = Exc(url, "none")
           ELSE /\ conn' = [conn EXCEPT !.pc = IF cr.exc = "none" THEN "made"
                                                ELSE "failed",
                                        !.creds = cr.creds]
                /\ raised' = Exc(cr.exc, "none")
    /\ last_op' = Op("init", NoMsg, "none")
    /\ UNCHANGED log
    /\ RabbitFrame

\* await instance.connect()
RabbitConnect ==
    /\ conn.pc = "made"
    /\ conn.connects < MaxConnects
    /\ \E out \in {"ok"} \cup (IF FALSE \in Outcomes(log)
                               THEN {"no_connection", "no_channel"} ELSE {}) :
        LET r == RabbitMQ_connect(conn, log, out)
        IN  /\ conn' = [r.conn EXCEPT !.connects = @ + 1]
            /\ log' = r.log
            /\ raised' = r.raised
    /\ last_op' = Op("connect", NoMsg, conn.connection)
    /\ RabbitFrame

\* await instance.close()
RabbitClose ==
    /\ conn.pc = "made"
    /\ \E ok \in Outcomes(log), left \in {"open", "closed"} :
        LET r == RabbitMQ_close(conn, log, ok, left)
        IN  /\ conn' = r.conn
            /\ log' = r.log
            /\ raised' = r.raised
    /\ last_op' = Op("close", NoMsg,
                     IF conn.channel = "none" THEN "none" ELSE conn.connection)
    /\ RabbitFrame

NextRabbit == RabbitNew \/ RabbitConnect \/ RabbitClose

SpecRabbit == InitRabbit /\ [][NextRabbit]_vars

\* the step is a close() of the instance
ClosedNow == conn.pc = "made" /\ last_op'.op = "close" /\ conn'.connects = conn.connects

\* pika's connection.close() was called in the step, and returned
PikaClosed ==
    /\ Len(log') = Len(log) + 2
    /\ log'[Len(log')] = Call("connection.close", NoMsg, TRUE)

\* C35: close() on an instance that never got a channel raises
\* ClosingFailedException; close() on an open connection succeeds (when
\* pika's cancel and close return) and closes it; close() on the closed
\* connection raises AlreadyClosedException, a ClosingFailedException, and
\* asks nothing of pika.
CloseLifecycle ==
    [][ClosedNow =>
          /\ conn.channel = "none" =>
                 /\ raised' = Exc("ClosingFailedException", "none")
                 /\ log' = log /\ conn' = conn
          /\ (conn.channel # "none" /\ conn.connection = "open") =>
                 \/ /\ raised' = NoExc
                    /\ PikaClosed
                    /\ conn'.connection = "closed"
                 \/ /\ raised' = Exc("ClosingFailedException", "BrokerError")
                    /\ log' = Append(log, Call("connection.close", NoMsg, FALSE))
          /\ (conn.channel # "none" /\ conn.connection = "closed") =>
                 /\ raised' = Exc("AlreadyClosedException", "none")
                 /\ IsClosingFailed(raised'.exc)
                 /\ log' = log /\ conn' = conn]_vars

\* connected, closed, and closed once more
CloseLifecycleWitness ==
    /\ last_op = Op("close", NoMsg, "closed")
    /\ raised = Exc("AlreadyClosedException", "none")
    /\ log = <<Call("BlockingConnection", NoMsg, TRUE), Call("channel", NoMsg, TRUE),
               Call("channel.cancel", NoMsg, TRUE),
               Call("connection.close", NoMsg, TRUE)>>

\* C36 (as stated): whatever of username, URL password and auth token is
\* given, a password without a username is refused, a username with
\* neither password nor token is refused, and a token that is given is
\* the password of the credentials.
CredentialRules ==
    (conn.pc \in {"made", "failed"} /\ truthy(conn.host)) =>
        /\ (truthy(conn.password) /\ ~truthy(conn.username)) =>
               conn.pc = "failed" /\ raised.exc = "RuntimeError"
        /\ (truthy(conn.username) /\ ~truthy(conn.password)
                /\ ~truthy(conn.auth_token)) =>
               conn.pc = "failed" /\ raised.exc = "RuntimeError"
        /\ (truthy(conn.auth_token) /\ conn.pc = "made") =>
               conn.creds.pass = conn.auth_token

\* the ack and reject requests for message m that the adapter carried out
Resolutions(m) ==
    SelectSeq(log, LAMBDA c : /\ c.op \in {"ack_message", "reject_message"}
                              /\ c.msg = m /\ c.ok)

\* C37: whatever the user does in an open_sub context (next, nack_current,
\* break, an exception, the exit), the adapter carries out at most one
\* resolution of each delivered message: never an ack and a reject of the
\* same message, and never the same one twice.
AtMostOneResolution ==
    \A m \in Msgs :
        /\ Len(Resolutions(m)) <= 1
        /\ Resolutions(m) # <<>> =>
               ack_status[m] = (IF Resolutions(m)[1].op = "ack_message"
                                THEN ACKED ELSE NACKED)

\* a broker error at the fetch after the first message, which __anext__ had
\* acked: the exit finds that message still current and asks for its nack
AtMostOneResolutionWitness ==
    /\ ctx = "exited"
    /\ last_op = Op("aexit", 0, ACKED)
    /\ pending_exc = "BrokerError"
    /\ Resolutions(0) = <<Call("ack_message", 0, TRUE)>>

\* C38 (as stated): when the fetch of the next message fails with a broker
\* error, the previous message having been acked by that __anext__, the
\* exit raises no NackException, the caller gets the broker error or, if
\* it is suppressed, nothing, and the Consumer has been closed.
NoNackOfAckedMessage ==
    ( /\ last_op.op = "aexit" /\ ctx = "exited"
      /\ pending_exc = "BrokerError"
      /\ last_op.msg # NoMsg /\ last_op.prev = ACKED )
    => /\ raised.exc # "NackException"
       /\ raised.exc \in {"BrokerError", "none"}
       /\ CallsOf(log, "close") # <<>>

\* the connect() calls of the harness that raised
FailedConnects == {j \in DOMAIN retry_log : /\ retry_log[j].ev = "connect"
                                           /\ retry_log[j].out # "ok"}

\* C39: an exception of connect() in a reconnect cycle is neither swallowed
\* nor retried: it is what the caller gets, at once, with no further
\* attempt even if retries remain, instead of the operation's own error.
ConnectErrorPropagates ==
    \A j \in FailedConnects :
        /\ j = Len(retry_log)
        /\ retry_pc = "done"
        /\ raised = Exc("ConnectError", "none")
        /\ raised.exc \notin {retry_log[k].out : k \in DOMAIN retry_log \ {j}}

\* connect raised after the first of three attempts had failed
ConnectErrorPropagatesWitness ==
    /\ retries = 2
    /\ retry_pc = "done"
    /\ Len(retry_log) = 5
    /\ retry_log[2] = Ev("func", 0, "ErrA", 0)
    /\ retry_log[5] = Ev("connect", 0, "ConnectError", 0)

\* ======================================================================
\* SpecOld: the auto-acking message_generator of the older adapters
\* (src/MQClient/backends), driven with next(), throw() and close();
\* `gen` holds its position and its locals `msg` and `acked`,
\* `except_errors` stands for propagate_error

OldGen(st, pos, msg, acked, auto_ack) ==
    [st |-> st, pos |-> pos, msg |-> msg, acked |-> acked, auto_ack |-> auto_ack]

\* the top of the loop: the next delivery is yielded, or the idle receive
\* breaks the loop and the finally clause cancels the consumer
old_generator_fetch(g, bl, calls) ==
    IF g.pos < bl
    THEN GenResult(OldGen("at_yield", g.pos + 1, g.pos, FALSE, g.auto_ack),
                   g.pos, "none", Append(calls, Call("fetch", g.pos, TRUE)))
    ELSE GenResult(OldGen("finished", g.pos, NoMsg, FALSE, g.auto_ack), NoMsg,
                   "StopIteration",
                   calls \o <<Call("fetch", NoMsg, TRUE), Call("cancel", NoMsg, TRUE)>>)

\* next(gen): after `yield msg` the else clause acks the message when
\* auto_ack; after `yield None` the except clause just ends
old_generator_next(g, bl) ==
    IF g.st = "finished"
    THEN GenResult(g, NoMsg, "StopIteration", <<>>)
    ELSE IF g.st = "at_yield" /\ g.auto_ack
    THEN old_generator_fetch([g EXCEPT !.acked = TRUE], bl,
                             <<Call("ack_message", g.msg, TRUE)>>)
    ELSE old_generator_fetch(g, bl, <<>>)

\* gen.throw(exc): at `yield msg` the message is rejected, and the exception
\* re-raised when propagate_error, else None is yielded; anywhere else the
\* exception leaves the generator
old_generator_throw(g, propagate_error) ==
    IF g.st = "at_yield"
    THEN IF propagate_error
         THEN GenResult([g EXCEPT !.st = "finished"], NoMsg, "thrown",
                        <<Call("reject_message", g.msg, TRUE),
                          Call("cancel", NoMsg, TRUE)>>)
         ELSE GenResult([g EXCEPT !.st = "at_none"], NoMsg, "none",
                        <<Call("reject_message", g.msg, TRUE)>>)
    ELSE IF g.st = "at_none"
    THEN GenResult([g EXCEPT !.st = "finished"], NoMsg, "thrown",
                   <<Call("cancel", NoMsg, TRUE)>>)
    ELSE GenResult([g EXCEPT !.st = "finished"], NoMsg, "thrown", <<>>)

\* gen.close(): GeneratorExit at either yield reaches `except GeneratorExit`,
\* which acks `msg` when auto_ack and it is not acked; then the finally clause
old_generator_close(g) ==
    IF g.st \in {"at_yield", "at_none"}
    THEN IF g.auto_ack /\ ~g.acked /\ g.msg # NoMsg
         THEN GenResult([g EXCEPT !.st = "finished", !.acked = TRUE], NoMsg, "none",
                        <<Call("ack_message", g.msg, TRUE),
                          Call("cancel", NoMsg, TRUE)>>)
         ELSE GenResult([g EXCEPT !.st = "finished"], NoMsg, "none",
                        <<Call("cancel", NoMsg, TRUE)>>)
    ELSE GenResult([g EXCEPT !.st = "finished"], NoMsg, "none", <<>>)

InitOld ==
    /\ MsgIdle
    /\ RegistryIdle
    /\ ConnIdle
    /\ BrokerIdle
    /\ ManualIdle
    /\ RetryIdle
    /\ except_errors \in BOOLEAN
    /\ backlog \in 0 .. MaxMsgs
    /\ \E a \in BOOLEAN : gen = OldGen("unstarted", 0, NoMsg, FALSE, a)
    /\ ack_status = [m \in Msgs |-> NONE]
    /\ log = <<>>
    /\ raised = NoExc
    /\ last_op = NoOp
    /\ ctx = "new"
    /\ sub_msg = NoMsg
    /\ loop = "none"
    /\ pending_exc = "none"
    /\ yielded = <<>>
    /\ nacked_by_user = {}
    /\ round = 0

OldFrame == UNCHANGED <<except_errors, ack_status, ctx, loop, pending_exc,
                        nacked_by_user, backlog, round, RetryVars, ManualVars,
                        BrokerVars, MsgVars, RegistryVars, ConnVars>>

OldStep(t, op, exc) ==
    /\ log' = log \o t.calls
    /\ gen' = t.gen
    /\ raised' = IF t.exc = "thrown" THEN Exc(exc, "none") ELSE Exc(t.exc, "none")
    /\ sub_msg' = t.out
    /\ yielded' = IF t.exc = "none" /\ op # "close"
                  THEN Append(yielded, t.out) ELSE yielded
    /\ last_op' = Op(op, gen.msg, gen.st)

OldNext ==
    /\ raised.exc \in {"none", "StopIteration"}
    /\ OldStep(old_generator_next(gen, backlog), "next", "none")
    /\ OldFrame

OldThrow ==
    /\ raised.exc \in {"none", "StopIteration"}
    /\ gen.st # "finished"
    /\ OldStep(old_generator_throw(gen, except_errors), "throw", "UserError")
    /\ OldFrame

OldClose ==
    /\ gen.st # "finished"
    /\ OldStep(old_generator_close(gen), "close", "none")
    /\ OldFrame

NextOld == OldNext \/ OldThrow \/ OldClose

SpecOld == InitOld /\ [][NextOld]_vars

\* C40 (as stated): a message the generator rejected because the consumer
\* threw is not acked by the generator afterwards, not even when the
\* generator is closed while it is suspended after a suppressed error.
RejectedIsNeverAcked ==
    \A j \in DOMAIN log :
        log[j].op = "reject_message" =>
            \A n \in j + 1 .. Len(log) :
                ~(log[n].op = "ack_message" /\ log[n].msg = log[j].msg)

====
